---- MODULE Spec2Model ----
(***************************************************************************)
(* pstop: the telemetry collector (src/system/collector.rs), the          *)
(* per-connection bandwidth tracker (src/system/netstat.rs) and the       *)
(* process-view engine (src/app.rs, src/input.rs).                        *)
(*                                                                         *)
(* Strings are sequences of one-character strings.  An Option<T> is a set *)
(* with at most one element ({} is None).  An f32/f64 that the code gets  *)
(* from a division is kept as the exact reduced fraction [num, den].      *)
(* Time is counted in clock units, TicksPerSecond of them to the second.  *)
(* The GPU sampler (src/system/gpu.rs) is the third object.  CPU, memory,  *)
(* load-average and uptime display are not part of this module.            *)
(***************************************************************************)
EXTENDS Integers, Sequences, FiniteSets, TLC

(***************************************************************************)
(* Bounds of the model                                                     *)
(***************************************************************************)
\* largest Instant the clock reaches
MaxClock == 3
\* largest step of the clock between two readings of Instant::now()
MaxDt == 2
\* sample passes per behaviour (App.tick is a u64 counter)
MaxTicks == 3
\* clock units per second: Duration::as_secs_f64 divides by it
TicksPerSecond == 2
\* pids the rate specification enumerates: 1..NumRatePids
NumRatePids == 2
\* TCP connections per address family the tracker specification enumerates
NumConns == 1

\* pids the instance names of the GPU specification carry: 1..NumGpuPids
NumGpuPids == 3

\* the longest filter query typed
MaxQueryLen == 3

\* the most processes of a drawn process list
MaxProcs == 3

(***************************************************************************)
(* Strings                                                                 *)
(***************************************************************************)
UpperChars == << "A", "B", "C", "D", "E", "F", "G", "H", "I", "J", "K", "L", "M",
                 "N", "O", "P", "Q", "R", "S", "T", "U", "V", "W", "X", "Y", "Z" >>

LowerChars == << "a", "b", "c", "d", "e", "f", "g", "h", "i", "j", "k", "l", "m",
                 "n", "o", "p", "q", "r", "s", "t", "u", "v", "w", "x", "y", "z" >>

DigitChars == << "0", "1", "2", "3", "4", "5", "6", "7", "8", "9" >>

\* char::to_lowercase on ASCII
LowerChar(c) ==
    IF \E i \in DOMAIN UpperChars : UpperChars[i] = c
    THEN LowerChars[CHOOSE i \in DOMAIN UpperChars : UpperChars[i] = c]
    ELSE c

\* the code point of an ASCII character (String's Ord compares byte-wise)
CharCode(c) ==
    IF \E i \in DOMAIN UpperChars : UpperChars[i] = c
    THEN 64 + (CHOOSE i \in DOMAIN UpperChars : UpperChars[i] = c)
    ELSE IF \E i \in DOMAIN LowerChars : LowerChars[i] = c
    THEN 96 + (CHOOSE i \in DOMAIN LowerChars : LowerChars[i] = c)
    ELSE IF \E i \in 1..10 : DigitChars[i] = c
    THEN 47 + (CHOOSE i \in 1..10 : DigitChars[i] = c)
    ELSE CASE c = " " -> 32
           [] c = "-" -> 45
           [] c = "." -> 46
           [] c = ":" -> 58
           [] c = "|" -> 124
           [] OTHER -> 63

\* str::to_lowercase
ToLower(s) == [i \in DOMAIN s |-> LowerChar(s[i])]

\* str::contains(needle): needle occurs as a contiguous substring
StrContains(h, n) ==
    \E i \in 0..(Len(h) - Len(n)) : SubSeq(h, i + 1, i + Len(n)) = n

\* str::trim: drop leading and trailing white space
RECURSIVE TrimStart(_)
TrimStart(s) == IF s # << >> /\ Head(s) = " " THEN TrimStart(Tail(s)) ELSE s

RECURSIVE TrimEnd(_)
TrimEnd(s) ==
    IF s # << >> /\ s[Len(s)] = " " THEN TrimEnd(SubSeq(s, 1, Len(s) - 1)) ELSE s

Trim(s) == TrimEnd(TrimStart(s))

\* str::split('|'): the pieces between separators, empty pieces included
RECURSIVE SplitFrom(_, _, _)
SplitFrom(s, i, cur) ==
    IF i > Len(s) THEN << cur >>
    ELSE IF s[i] = "|" THEN << cur >> \o SplitFrom(s, i + 1, << >>)
    ELSE SplitFrom(s, i + 1, Append(cur, s[i]))

SplitBar(s) == SplitFrom(s, 1, << >>)

\* Ordering of two strings: -1 Less, 0 Equal, 1 Greater
RECURSIVE StrCmp(_, _)
StrCmp(a, b) ==
    IF a = << >> /\ b = << >> THEN 0
    ELSE IF a = << >> THEN -1
    ELSE IF b = << >> THEN 1
    ELSE IF CharCode(Head(a)) < CharCode(Head(b)) THEN -1
    ELSE IF CharCode(Head(a)) > CharCode(Head(b)) THEN 1
    ELSE StrCmp(Tail(a), Tail(b))

\* Ordering of two integers
IntCmp(a, b) == IF a < b THEN -1 ELSE IF a > b THEN 1 ELSE 0

(***************************************************************************)
(* Fractions (the values of the f32/f64 fields)                            *)
(***************************************************************************)
RECURSIVE Gcd(_, _)
Gcd(a, b) == IF b = 0 THEN a ELSE Gcd(b, a % b)

\* n / d for d > 0, reduced
Frac(n, d) ==
    IF n = 0 THEN [num |-> 0, den |-> 1]
    ELSE LET a == IF n < 0 THEN -n ELSE n
             g == Gcd(a, d)
         IN [num |-> n \div g, den |-> d \div g]

FracZero == [num |-> 0, den |-> 1]

FracOfInt(n) == [num |-> n, den |-> 1]

FracAdd(x, y) == Frac(x.num * y.den + y.num * x.den, x.den * y.den)

\* f64::partial_cmp(...).unwrap_or(Equal) on finite values
FracCmp(x, y) == IntCmp(x.num * y.den, y.num * x.den)

FracNonNeg(x) == x.num >= 0 /\ x.den > 0

(***************************************************************************)
(* ProcessSortField and ProcessStatus (src/system/process.rs)              *)
(***************************************************************************)
\* ProcessSortField::all(), in menu order
SortFieldsAll == << "Pid", "Ppid", "User", "Priority", "Nice", "VirtMem", "ResMem",
                    "SharedMem", "Status", "Cpu", "Mem", "Time", "Threads",
                    "IoReadRate", "IoWriteRate", "IoRate", "Command" >>

SortFields == { SortFieldsAll[i] : i \in DOMAIN SortFieldsAll }

\* derive(Ord) on ProcessStatus: the rank is the position of the variant
StatusRank(st) ==
    CASE st = "Running" -> 0
      [] st = "Sleeping" -> 1
      [] st = "DiskSleep" -> 2
      [] st = "Stopped" -> 3
      [] st = "Zombie" -> 4
      [] OTHER -> 5

(***************************************************************************)
(* App::sort_processes                                                     *)
(***************************************************************************)
\* the comparator's match on the sort field
FieldOrdering(field, a, b) ==
    CASE field = "Pid" -> IntCmp(a.pid, b.pid)
      [] field = "Ppid" -> IntCmp(a.ppid, b.ppid)
      [] field = "User" -> StrCmp(ToLower(a.user), ToLower(b.user))
      [] field = "Priority" -> IntCmp(a.priority, b.priority)
      [] field = "Nice" -> IntCmp(a.nice, b.nice)
      [] field = "VirtMem" -> IntCmp(a.virtual_mem, b.virtual_mem)
      [] field = "ResMem" -> IntCmp(a.resident_mem, b.resident_mem)
      [] field = "SharedMem" -> IntCmp(a.shared_mem, b.shared_mem)
      [] field = "Cpu" -> FracCmp(a.cpu_usage, b.cpu_usage)
      [] field = "Mem" -> FracCmp(a.mem_usage, b.mem_usage)
      [] field = "Time" -> IntCmp(a.run_time, b.run_time)
      [] field = "Threads" -> IntCmp(a.threads, b.threads)
      [] field = "Command" -> StrCmp(ToLower(a.name), ToLower(b.name))
      [] field = "Status" -> IntCmp(StatusRank(a.status), StatusRank(b.status))
      [] field = "IoReadRate" -> FracCmp(a.io_read_rate, b.io_read_rate)
      [] field = "IoWriteRate" -> FracCmp(a.io_write_rate, b.io_write_rate)
      [] OTHER -> FracCmp(FracAdd(a.io_read_rate, a.io_write_rate),
                          FracAdd(b.io_read_rate, b.io_write_rate))

\* a comparator that is never reversed
SortOrderingNeverReversed(field, ascending, a, b) == FieldOrdering(field, a, b)

\* the comparator handed to sort_by: the ordering, reversed when descending
SortOrdering(field, ascending, a, b) ==
    IF ascending THEN FieldOrdering(field, a, b) ELSE 0 - FieldOrdering(field, a, b)

\* slice::sort_by is stable: x goes after every element that does not
\* compare Greater than it
RECURSIVE StableInsert(_, _, _, _)
StableInsert(x, sorted, field, ascending) ==
    IF sorted = << >> THEN << x >>
    ELSE IF SortOrdering(field, ascending, Head(sorted), x) <= 0
         THEN << Head(sorted) >> \o StableInsert(x, Tail(sorted), field, ascending)
         ELSE << x >> \o sorted

RECURSIVE SortList(_, _, _)
SortList(list, field, ascending) ==
    IF list = << >> THEN << >>
    ELSE StableInsert(list[Len(list)],
                      SortList(SubSeq(list, 1, Len(list) - 1), field, ascending),
                      field, ascending)

(***************************************************************************)
(* App::apply_filter                                                       *)
(***************************************************************************)
StrSystem == << "s", "y", "s", "t", "e", "m" >>

StrNtAuthority == << "n", "t", " ", "a", "u", "t", "h", "o", "r", "i", "t", "y" >>

\* a filter that every process passes
MatchesQueryEveryProcess(p, query) == TRUE

\* a filter whose terms keep the white space around them
MatchesQueryUntrimmed(p, query) ==
    LET terms == SplitBar(ToLower(query))
    IN \E k \in DOMAIN terms :
          /\ terms[k] # << >>
          /\ \/ StrContains(ToLower(p.name), terms[k])
             \/ StrContains(ToLower(p.command), terms[k])

\* the F4 filter: some trimmed, non-empty term is in the name or the command
MatchesQuery(p, query) ==
    LET terms == SplitBar(ToLower(query))
    IN \E k \in DOMAIN terms :
          LET t == Trim(terms[k])
          IN /\ t # << >>
             /\ \/ StrContains(ToLower(p.name), t)
                \/ StrContains(ToLower(p.command), t)

\* the loop body: TRUE when p is pushed to filtered_processes
FilterKeeps(p, ufilter, hide_kernel, query) ==
    /\ \A u \in ufilter : ToLower(p.user) = ToLower(u)
    /\ ~ ( /\ hide_kernel
           /\ \/ StrContains(ToLower(p.user), StrSystem)
              \/ StrContains(ToLower(p.user), StrNtAuthority) )
    /\ query = << >> \/ MatchesQuery(p, query)

RECURSIVE FilterList(_, _, _, _)
\* a loop that puts each kept process in front of those kept before it
FilterListInsertFront(list, ufilter, hide_kernel, query) ==
    IF list = << >> THEN << >>
    ELSE FilterList(Tail(list), ufilter, hide_kernel, query)
         \o ( IF FilterKeeps(Head(list), ufilter, hide_kernel, query)
              THEN << Head(list) >> ELSE << >> )

FilterList(list, ufilter, hide_kernel, query) ==
    IF list = << >> THEN << >>
    ELSE ( IF FilterKeeps(Head(list), ufilter, hide_kernel, query)
           THEN << Head(list) >> ELSE << >> )
         \o FilterList(Tail(list), ufilter, hide_kernel, query)

(***************************************************************************)
(* App::build_tree_view                                                    *)
(***************************************************************************)
PidsOf(list) == { list[i].pid : i \in DOMAIN list }

\* the indices i, in list order, for which Test(i) holds
RECURSIVE IndicesFrom(_, _, _)
IndicesFrom(i, n, S) ==
    IF i > n THEN << >>
    ELSE ( IF i \in S THEN << i >> ELSE << >> ) \o IndicesFrom(i + 1, n, S)

\* the parent test with its negation lost
IsRootAtParentKnown(list, i) == list[i].ppid = 0 \/ list[i].ppid \in PidsOf(list)

IsRootAt(list, i) == list[i].ppid = 0 \/ list[i].ppid \notin PidsOf(list)

\* root_indices
RootIndices(list) ==
    IndicesFrom(1, Len(list), { i \in DOMAIN list : IsRootAt(list, i) })

\* children_map.get(&pid): the non-root indices whose ppid is pid
ChildIndices(list, pid) ==
    IndicesFrom(1, Len(list),
                { i \in DOMAIN list : ~ IsRootAt(list, i) /\ list[i].ppid = pid })

\* dfs: the (idx, depth, is_last) triples pushed to `ordered`
RECURSIVE Dfs(_, _, _, _, _)
RECURSIVE DfsChildren(_, _, _, _, _)
Dfs(list, collapsed, idx, depth, is_last) ==
    << [idx |-> idx, depth |-> depth, is_last |-> is_last] >>
    \o ( IF list[idx].pid \in collapsed THEN << >>
         ELSE DfsChildren(list, collapsed, ChildIndices(list, list[idx].pid), 1,
                          depth + 1) )

DfsChildren(list, collapsed, children, ci, depth) ==
    IF ci > Len(children) THEN << >>
    ELSE Dfs(list, collapsed, children[ci], depth, ci = Len(children))
         \o DfsChildren(list, collapsed, children, ci + 1, depth)

\* a rebuild that does not copy is_last
BuildTreeViewNoLast(list, collapsed) ==
    LET ordered == DfsChildren(list, collapsed, RootIndices(list), 1, 0)
    IN [k \in DOMAIN ordered |-> [list[ordered[k].idx] EXCEPT !.depth = ordered[k].depth]]

\* the new filtered_processes: the visited processes with depth and is_last_child
BuildTreeView(list, collapsed) ==
    LET ordered == DfsChildren(list, collapsed, RootIndices(list), 1, 0)
    IN [k \in DOMAIN ordered |->
          [list[ordered[k].idx] EXCEPT !.depth = ordered[k].depth,
                                       !.is_last_child = ordered[k].is_last]]

(***************************************************************************)
(* State                                                                   *)
(***************************************************************************)
VARIABLES
    \* which object a behaviour drives: Collector::new builds no
    \* NetBandwidthTracker, so the two never share a run
    driven,
    \* the last value read from Instant::now()
    clock,
    \* Collector
    win_data_cache, user_name_cache, win_data_cache_ticks,
    prev_io_counters, prev_net_rx, prev_net_tx, prev_net_time,
    \* App
    mode, user_menu_index,
    paused, tick, network_info, processes, filtered_processes,
    selected_index, scroll_offset, visible_rows,
    sort_field, sort_ascending, filter_query, user_filter, available_users,
    follow_pid, tree_view, collapsed_pids, show_threads, hide_kernel_threads,
    search_query, search_not_found, tagged_pids,
    active_tab, connections, net_processes, net_selected_index, net_scroll_offset,
    gpu_processes, gpu_selected_index, gpu_scroll_offset,
    update_interval_ms, setup_menu_index, setup_category, setup_panel,
    \* whether run_app has applied the configuration file to the App
    config_loaded,
    \* NetBandwidthTracker
    prev_bytes, enabled_set, admin_ok, last_poll,
    \* GpuCollector
    \* (gpu_query is the field `query`)
    gpu_query, engine_counter, dedicated_counter, shared_counter, initialized,
    has_sampled_once, adapter_info,
    \* what the last sample pass read and returned, and the caches it started from
    io_counters, current_pids, h_prev_io, h_prev_net,
    \* the last sample pass: selected_index, scroll_offset and follow_pid as it
    \* found them, whether follow_process found the followed pid in the new
    \* list, and the selected_index it left
    h_cursor,
    \* the last sample pass: the batch queries it made and what
    \* collect_process_data, batch_process_users and batch_process_times
    \* returned (empty when not called)
    h_batch,
    net_out, current_keys, estats_read, h_prev_bytes,
    \* the keys of the last pass that the pass before it had dropped from a cache
    reappeared_pids, reappeared_keys,
    \* the last method applied to filtered_processes and the list it was handed
    last_call, h_filtered,
    \* the pid and the display list of the last collapse, until the display
    \* list is next rebuilt or sorted
    h_collapse,
    \* the latest calls of sort_processes on an otherwise unchanged list:
    \* the direction and the resulting order of each
    sort_log,
    \* the connections for which the last poll called SetPerTcpConnectionEStats,
    \* or GetPerTcpConnectionEStats, after admin_ok had become Some(false)
    late_enables, late_reads,
    \* how the first call of SetPerTcpConnectionEStats ever made went: "none"
    \* before it, then "ok" or "failed"
    h_first_enable,
    \* App: the quit flag and the mouse setting
    should_quit, enable_mouse,
    \* App: the visible columns, the colour scheme, and the display options
    \* that are on (those that are no variable of their own)
    visible_columns, color_scheme_id, display_on,
    \* run_app: where the main loop stands, the calls of PstopConfig::save it
    \* makes, and whether a sample pass or an input dispatch ran with
    \* should_quit set
    run_at, config_saves, h_after_quit,
    \* the toggles made in the setup menu
    setup_toggles,
    \* the pids the last Enter of kill mode sent the signal to, and the pids of
    \* the process list at that moment
    h_killed,
    \* flips each time Collector::refresh returns at the pause check
    refresh_skipped,
    \* search_next, last call: the indices it examined, in order, and the list,
    \* the lower-cased query, the selection it started from and whether it
    \* reported not-found
    search_visited, h_search,
    \* whether search_prev was called since the last search_next ("called"),
    \* and from the row that search_next had found back to the row it had
    \* started from ("returned"); "none" otherwise
    h_search_prev,
    \* tag_with_children, last call: the pids the loop took from to_tag, in
    \* order, with to_tag at the end; the filtered list and the selection;
    \* tagged_pids before and after
    tag_trace, h_tag_input, h_tagged,
    \* GpuCollector::collect, last call: the returned vector as a set, the PDH
    \* calls it made, and the status of PdhCollectQueryData ("none" if not called)
    gpu_out, gpu_calls, gpu_status,
    \* has_sampled_once before that call, and the answers it was given
    h_gpu

collectorVars == << win_data_cache, user_name_cache, win_data_cache_ticks,
                    prev_io_counters, prev_net_rx, prev_net_tx, prev_net_time >>

appVars == << mode, user_menu_index, paused, tick, network_info, processes, filtered_processes,
              selected_index, scroll_offset, visible_rows,
              sort_field, sort_ascending, filter_query, user_filter, available_users,
              follow_pid, tree_view, collapsed_pids, show_threads, hide_kernel_threads,
              search_query, search_not_found, tagged_pids,
              active_tab, connections, net_processes, net_selected_index,
              net_scroll_offset, gpu_processes, gpu_selected_index, gpu_scroll_offset,
              update_interval_ms, setup_menu_index, setup_category, setup_panel,
              config_loaded, should_quit, enable_mouse, visible_columns, color_scheme_id,
              display_on >>

\* fields of App that only the quit keys and the setup screen write
otherApp == << should_quit, enable_mouse, visible_columns, color_scheme_id, display_on >>

\* the locals of run_app
mainVars == << run_at, config_saves, h_after_quit, h_killed, setup_toggles >>

\* the configuration and the setup menu
configVars == << update_interval_ms, setup_menu_index, setup_category, setup_panel,
                config_loaded >>

trackerVars == << prev_bytes, enabled_set, admin_ok, last_poll >>

passVars == << io_counters, current_pids, h_prev_io, h_prev_net, reappeared_pids,
              h_cursor, h_batch >>

pollVars == << net_out, current_keys, estats_read, h_prev_bytes, reappeared_keys,
              late_enables, late_reads, h_first_enable >>

gpuVars == << gpu_query, engine_counter, dedicated_counter, shared_counter, initialized,
             has_sampled_once, adapter_info >>

gpuCallVars == << gpu_out, gpu_calls, gpu_status, h_gpu >>

\* no search_prev to remember
NoSearchPrev == "none"

searchCallVars == << search_visited, h_search, h_search_prev >>

tagCallVars == << tag_trace, h_tag_input, h_tagged >>

\* no collapse to remember
NoCollapse == [pid |-> {}, before |-> << >>]

callVars == << last_call, h_filtered, sort_log, h_collapse >>

vars == << driven, clock, collectorVars, appVars, trackerVars, passVars, pollVars,
          callVars, gpuVars, gpuCallVars, searchCallVars, tagCallVars, refresh_skipped,
          mainVars >>

(***************************************************************************)
(* Cumulative counters to rates                                            *)
(***************************************************************************)
\* a signed difference where the code saturates at zero
SignedSub(a, b) == a - b

\* u64::saturating_sub
SaturatingSub(a, b) == IF a >= b THEN a - b ELSE 0

\* Instant::duration_since: zero when the earlier instant is the later one
DurationSince(now, earlier) == IF now >= earlier THEN now - earlier ELSE 0

\* (delta as f64) / elapsed.as_secs_f64(), for elapsed > 0 clock units
BytesPerSec(delta, elapsed) == Frac(delta * TicksPerSecond, elapsed)

\* the rate of one counter against the cached sample, as in
\* collect_network and collect_processes
CounterRate(current, previous, elapsed) ==
    IF elapsed > 0 THEN BytesPerSec(SaturatingSub(current, previous), elapsed)
    ELSE FracZero

\* both rates taken from the read counter
IoRatesFromRead(pid, io, prev, now) ==
    IF pid \in DOMAIN prev
    THEN LET elapsed == DurationSince(now, prev[pid].time)
         IN << CounterRate(io[1], prev[pid].read, elapsed),
               CounterRate(io[1], prev[pid].read, elapsed) >>
    ELSE << FracZero, FracZero >>

\* collect_processes: (io_read_rate, io_write_rate) of one pid
IoRates(pid, io, prev, now) ==
    IF pid \in DOMAIN prev
    THEN LET elapsed == DurationSince(now, prev[pid].time)
         IN << CounterRate(io[1], prev[pid].read, elapsed),
               CounterRate(io[2], prev[pid].write, elapsed) >>
    ELSE << FracZero, FracZero >>

\* collect_network: (rx_rate, tx_rate)
NetRates(total_rx, total_tx, prx, ptx, ptime, now) ==
    IF ptime # {}
    THEN LET elapsed == DurationSince(now, CHOOSE t \in ptime : TRUE)
         IN << CounterRate(total_rx, prx, elapsed), CounterRate(total_tx, ptx, elapsed) >>
    ELSE << FracZero, FracZero >>

\* a cache that keeps the larger of the cached and the sampled counter
InsertIoCountersKeepMax(prev, procs, now) ==
    LET pids == { procs[i].pid : i \in DOMAIN procs }
        IoOf(pid) == (CHOOSE i \in DOMAIN procs : procs[i].pid = pid)
        Larger(a, b) == IF a >= b THEN a ELSE b
    IN [pid \in (DOMAIN prev) \cup pids |->
          IF pid \in pids
          THEN [read |-> IF pid \in DOMAIN prev
                         THEN Larger(prev[pid].read, procs[IoOf(pid)].io[1])
                         ELSE procs[IoOf(pid)].io[1],
                write |-> IF pid \in DOMAIN prev
                          THEN Larger(prev[pid].write, procs[IoOf(pid)].io[2])
                          ELSE procs[IoOf(pid)].io[2],
                time |-> now]
          ELSE prev[pid]]

\* a cache that keeps the baseline of a pid it already holds
InsertIoCountersNewOnly(prev, procs, now) ==
    LET pids == { procs[i].pid : i \in DOMAIN procs }
        IoOf(pid) == (CHOOSE i \in DOMAIN procs : procs[i].pid = pid)
    IN [pid \in (DOMAIN prev) \cup pids |->
          IF pid \in DOMAIN prev
          THEN prev[pid]
          ELSE [read |-> procs[IoOf(pid)].io[1], write |-> procs[IoOf(pid)].io[2],
                time |-> now]]

\* prev_io_counters.insert(pid, ...) for every pid of the pass
InsertIoCounters(prev, procs, now) ==
    LET pids == { procs[i].pid : i \in DOMAIN procs }
        IoOf(pid) == (CHOOSE i \in DOMAIN procs : procs[i].pid = pid)
    IN [pid \in (DOMAIN prev) \cup pids |->
          IF pid \in pids
          THEN [read |-> procs[IoOf(pid)].io[1], write |-> procs[IoOf(pid)].io[2],
                time |-> now]
          ELSE prev[pid]]

\* prev_io_counters.retain(|pid, _| current_pids.contains(pid))
RetainPids(cache, pids) == [pid \in (DOMAIN cache) \cap pids |-> cache[pid]]

(***************************************************************************)
(* Collector::collect_processes                                            *)
(***************************************************************************)
StrSYSTEM == << "S", "Y", "S", "T", "E", "M" >>

\* sysinfo's ProcessStatus to the table's
MapStatus(sys_status) ==
    CASE sys_status = "Run" -> "Running"
      [] sys_status = "Sleep" -> "Sleeping"
      [] sys_status = "Stop" -> "Stopped"
      [] sys_status = "Zombie" -> "Zombie"
      [] OTHER -> "Sleeping"

\* the ProcessInfo of one enumerated process
MakeProcessInfo(raw, wcache, ucache, process_times, prev, now, total_mem, uptime) ==
    LET cached == raw.pid \in DOMAIN wcache
        private_ws == IF cached THEN wcache[raw.pid].private_working_set ELSE 0
        rates == IoRates(raw.pid, raw.io, prev, now)
    IN [pid |-> raw.pid,
        ppid |-> raw.ppid,
        name |-> raw.name,
        command |-> raw.command,
        user |-> IF raw.pid \in DOMAIN ucache THEN ucache[raw.pid] ELSE StrSYSTEM,
        status |-> MapStatus(raw.status),
        priority |-> IF cached THEN wcache[raw.pid].priority ELSE 8,
        nice |-> IF cached THEN wcache[raw.pid].nice ELSE 0,
        virtual_mem |-> raw.virt,
        resident_mem |-> raw.resident,
        shared_mem |-> SaturatingSub(raw.resident, private_ws),
        cpu_usage |-> raw.cpu_usage,
        mem_usage |-> IF total_mem > 0 THEN Frac(raw.resident * 100, total_mem)
                      ELSE FracZero,
        run_time |-> IF raw.run_time < uptime THEN raw.run_time ELSE uptime,
        cpu_time_100ns |-> IF raw.pid \in DOMAIN process_times
                           THEN process_times[raw.pid] ELSE 0,
        threads |-> IF cached THEN wcache[raw.pid].thread_count ELSE 1,
        io_read_rate |-> rates[1],
        io_write_rate |-> rates[2],
        depth |-> 0,
        is_last_child |-> FALSE]

\* the sub-entry pushed for one thread when show_threads is on
MakeThreadInfo(ti, pid) ==
    [pid |-> ti.thread_id,
     ppid |-> pid,
     name |-> ti.name,
     command |-> << >>,
     user |-> << >>,
     status |-> "Running",
     priority |-> ti.base_priority,
     nice |-> 0,
     virtual_mem |-> 0,
     resident_mem |-> 0,
     shared_mem |-> 0,
     cpu_usage |-> FracZero,
     mem_usage |-> FracZero,
     run_time |-> 0,
     cpu_time_100ns |-> 0,
     threads |-> 0,
     io_read_rate |-> FracZero,
     io_write_rate |-> FracZero,
     depth |-> 1,
     is_last_child |-> FALSE]

\* each process followed by its threads
RECURSIVE ExpandThreads(_, _)
ExpandThreads(infos, procs) ==
    IF infos = << >> THEN << >>
    ELSE LET raw == Head(procs)
         IN << Head(infos) >>
            \o [k \in DOMAIN raw.threads |-> MakeThreadInfo(raw.threads[k], raw.pid)]
            \o ExpandThreads(Tail(infos), Tail(procs))

\* app.processes after collect_processes
CollectProcesses(procs, wcache, ucache, process_times, prev, now, total_mem, uptime, with_threads) ==
    LET infos == [i \in DOMAIN procs |->
                    MakeProcessInfo(procs[i], wcache, ucache, process_times, prev, now,
                                    total_mem, uptime)]
    IN IF with_threads THEN ExpandThreads(infos, procs) ELSE infos

(***************************************************************************)
(* App: users, selection                                                   *)
(***************************************************************************)
\* collect_users: the distinct users, sorted by lower-cased name; users that
\* differ only in case keep the order the HashSet happens to give them
UserLists(list) ==
    LET users == { list[i].user : i \in DOMAIN list }
        n == Cardinality(users)
    IN { s \in [1..n -> users] :
           /\ \A i, j \in 1..n : i # j => s[i] # s[j]
           /\ \A i, j \in 1..n : i < j => StrCmp(ToLower(s[i]), ToLower(s[j])) <= 0 }

\* ensure_visible: the new scroll_offset
EnsureVisible(sel, scroll, rows) ==
    IF sel < scroll THEN sel
    ELSE IF sel >= scroll + rows THEN sel - rows + 1
    ELSE scroll

\* a follow_process that never moves the cursor
FollowProcessNever(list, follow, sel, scroll, rows) == << sel, scroll >>

\* follow_process: the new (selected_index, scroll_offset)
FollowProcess(list, follow, sel, scroll, rows) ==
    IF \E f \in follow : f \in PidsOf(list)
    THEN LET f == CHOOSE f \in follow : TRUE
             idx == CHOOSE i \in DOMAIN list :
                       /\ list[i].pid = f
                       /\ \A j \in 1..(i - 1) : list[j].pid # f
         IN << idx - 1, EnsureVisible(idx - 1, scroll, rows) >>
    ELSE << sel, scroll >>

\* clamp_selection on the process list: the new (selected_index, scroll_offset)
ClampSelection(list, sel, scroll) ==
    IF list = << >> THEN << 0, 0 >>
    ELSE IF sel >= Len(list) THEN << Len(list) - 1, scroll >>
    ELSE << sel, scroll >>

\* a re-derivation that sorts the list on display and then builds
\* filtered_processes anew from the process list
DeriveViewSortFirst(list, ufilter, hide_kernel, query, field, ascending, tree, collapsed) ==
    IF tree THEN BuildTreeView(FilterList(list, ufilter, hide_kernel, query), collapsed)
    ELSE FilterList(list, ufilter, hide_kernel, query)

\* apply_filter, sort_processes and, in tree view, build_tree_view
DeriveView(list, ufilter, hide_kernel, query, field, ascending, tree, collapsed) ==
    LET sorted == SortList(FilterList(list, ufilter, hide_kernel, query), field, ascending)
    IN IF tree THEN BuildTreeView(sorted, collapsed) ELSE sorted

\* the list DeriveView hands to the last method it applies
DeriveInput(list, ufilter, hide_kernel, query, field, ascending, tree) ==
    IF tree THEN SortList(FilterList(list, ufilter, hide_kernel, query), field, ascending)
    ELSE FilterList(list, ufilter, hide_kernel, query)

\* the last method DeriveView applies
DeriveCall(tree) == IF tree THEN "build_tree_view" ELSE "sort_processes"

(***************************************************************************)
(* GpuCollector (src/system/gpu.rs)                                        *)
(***************************************************************************)
\* HashMap::insert
MapPut(m, k, v) == [x \in (DOMAIN m) \cup {k} |-> IF x = k THEN v ELSE m[x]]

\* format!("{}", n) for an unsigned n
RECURSIVE Decimal(_)
Decimal(n) ==
    IF n < 10 THEN << DigitChars[n + 1] >>
    ELSE Append(Decimal(n \div 10), DigitChars[(n % 10) + 1])

\* str::find: the 1-based position of the first occurrence, if any
FindSub(h, n) ==
    LET hits == { i \in 1..(Len(h) - Len(n) + 1) : SubSeq(h, i, i + Len(n) - 1) = n }
    IN IF hits = {} THEN {} ELSE { CHOOSE i \in hits : \A j \in hits : i <= j }

DigitValue(c) == (CHOOSE i \in 1..10 : DigitChars[i] = c) - 1

RECURSIVE DigitsValue(_)
DigitsValue(s) ==
    IF s = << >> THEN 0 ELSE DigitsValue(SubSeq(s, 1, Len(s) - 1)) * 10 + DigitValue(s[Len(s)])

\* str::parse::<u32>: an optional '+', then one or more decimal digits; the
\* instance names of the model have at most nine digits, so the value fits
ParseU32(s) ==
    LET body == IF s # << >> /\ s[1] = "+" THEN Tail(s) ELSE s
        isDigit(c) == \E i \in 1..10 : DigitChars[i] = c
    IN IF body # << >> /\ (\A i \in 1..Len(body) : isDigit(body[i]))
          /\ Len(body) <= 9
       THEN { DigitsValue(body) } ELSE {}

StrPid == << "p", "i", "d", "_" >>

StrEngtype == << "e", "n", "g", "t", "y", "p", "e", "_" >>

StrUnknown == << "U", "n", "k", "n", "o", "w", "n" >>

\* parse_engine_instance: Some((pid, engine type)) as a set
parse_engine_instance(name) ==
    LET found == FindSub(name, StrPid)
    IN IF found = {} THEN {}
       ELSE LET pid_start == (CHOOSE i \in found : TRUE) + 4
                rest == SubSeq(name, pid_start, Len(name))
                us == FindSub(rest, << "_" >>)
            IN IF us = {} THEN {}
               ELSE LET pid_end == pid_start + (CHOOSE i \in us : TRUE) - 1
                        pid == ParseU32(SubSeq(name, pid_start, pid_end - 1))
                        et == FindSub(name, StrEngtype)
                        eng_type == IF et = {} THEN StrUnknown
                                    ELSE SubSeq(name, (CHOOSE i \in et : TRUE) + 8, Len(name))
                    IN { << n, eng_type >> : n \in pid }

\* parse_memory_instance: Some(pid) as a set
parse_memory_instance(name) ==
    LET found == FindSub(name, StrPid)
    IN IF found = {} THEN {}
       ELSE LET pid_start == (CHOOSE i \in found : TRUE) + 4
                rest == SubSeq(name, pid_start, Len(name))
                us == FindSub(rest, << "_" >>)
                pid_end == IF us = {} THEN Len(name) + 1
                           ELSE pid_start + (CHOOSE i \in us : TRUE) - 1
            IN ParseU32(SubSeq(name, pid_start, pid_end - 1))

\* GpuProcessInfo { pid, ..Default::default() }
DefaultGpuProcessInfo(pid) ==
    [pid |-> pid, gpu_usage |-> FracZero, dedicated_mem |-> 0, shared_mem |-> 0,
     engine_type |-> << >>]

\* per_pid.entry(pid).or_insert_with(...)
GpuEntry(per_pid, pid) ==
    IF pid \in DOMAIN per_pid THEN per_pid ELSE MapPut(per_pid, pid, DefaultGpuProcessInfo(pid))

\* whether the two calls of PdhGetFormattedCounterArrayW hand over the items
CounterArrayRead(ans) == ans.more_data /\ ans.second_ok

\* the PDH calls of one counter read: the sizing call, then the reading call
CounterArrayCalls(ans) == IF ans.more_data THEN 2 ELSE 1

\* the loop of collect_engine_data over the items
RECURSIVE EngineLoop(_, _)
EngineLoop(per_pid, items) ==
    IF items = << >> THEN per_pid
    ELSE LET item == Head(items)
             parsed == parse_engine_instance(item.name)
         IN IF item.cstatus # 0 \/ parsed = {} THEN EngineLoop(per_pid, Tail(items))
            ELSE LET pe == CHOOSE x \in parsed : TRUE
                     m == GpuEntry(per_pid, pe[1])
                 IN EngineLoop(
                        IF FracCmp(item.value, m[pe[1]].gpu_usage) > 0
                        THEN [m EXCEPT ![pe[1]].gpu_usage = item.value,
                                       ![pe[1]].engine_type = pe[2]]
                        ELSE m,
                        Tail(items))

\* a loop that also takes over an engine that only equals the entry's usage
RECURSIVE EngineLoopLatest(_, _)
EngineLoopLatest(per_pid, items) ==
    IF items = << >> THEN per_pid
    ELSE LET item == Head(items)
             parsed == parse_engine_instance(item.name)
         IN IF item.cstatus # 0 \/ parsed = {} THEN EngineLoopLatest(per_pid, Tail(items))
            ELSE LET pe == CHOOSE x \in parsed : TRUE
                     m == GpuEntry(per_pid, pe[1])
                 IN EngineLoopLatest(
                        IF FracCmp(item.value, m[pe[1]].gpu_usage) >= 0
                        THEN [m EXCEPT ![pe[1]].gpu_usage = item.value,
                                       ![pe[1]].engine_type = pe[2]]
                        ELSE m,
                        Tail(items))

collect_engine_data_latest(per_pid, ans) ==
    IF CounterArrayRead(ans) THEN EngineLoopLatest(per_pid, ans.items) ELSE per_pid

\* GpuCollector::collect_engine_data
collect_engine_data(per_pid, ans) ==
    IF CounterArrayRead(ans) THEN EngineLoop(per_pid, ans.items) ELSE per_pid

\* u64::saturating_add; the byte counts of the model stay far below 2^64
SaturatingAdd(a, b) == a + b

\* the loop of collect_memory_data over the items
RECURSIVE MemoryLoop(_, _, _)
MemoryLoop(per_pid, items, shared) ==
    IF items = << >> THEN per_pid
    ELSE LET item == Head(items)
             parsed == parse_memory_instance(item.name)
         IN IF item.cstatus # 0 \/ parsed = {} THEN MemoryLoop(per_pid, Tail(items), shared)
            ELSE LET pid == CHOOSE x \in parsed : TRUE
                     m == GpuEntry(per_pid, pid)
                     bytes == IF item.value > 0 THEN item.value ELSE 0
                 IN MemoryLoop(
                        IF shared
                        THEN [m EXCEPT ![pid].shared_mem = SaturatingAdd(@, bytes)]
                        ELSE [m EXCEPT ![pid].dedicated_mem = SaturatingAdd(@, bytes)],
                        Tail(items), shared)

\* GpuCollector::collect_memory_data
collect_memory_data(per_pid, ans, shared) ==
    IF CounterArrayRead(ans) THEN MemoryLoop(per_pid, ans.items, shared) ELSE per_pid

RECURSIVE SumOver(_, _, _)
SumOver(m, keys, field) ==
    IF keys = {} THEN 0
    ELSE LET k == CHOOSE x \in keys : TRUE
         IN m[k][field] + SumOver(m, keys \ {k}, field)

RECURSIVE SumUsage(_, _)
SumUsage(m, keys) ==
    IF keys = {} THEN FracZero
    ELSE LET k == CHOOSE x \in keys : TRUE
         IN FracAdd(m[k].gpu_usage, SumUsage(m, keys \ {k}))

\* GpuAdapterInfo::default(), without the name
DefaultAdapterInfo ==
    [overall_usage |-> FracZero, total_dedicated_mem |-> 0, total_shared_mem |-> 0]

\* GpuCollector::new and init: whether PdhOpenQueryW succeeds and which of the
\* three PdhAddEnglishCounterW calls do; a handle that was not handed out is 0
GpuNew(open_ok, s1, s2, s3) ==
    LET opened == open_ok /\ (s1 \/ s2 \/ s3)
    IN [query |-> IF opened THEN 1 ELSE 0,
        engine_counter |-> IF opened /\ s1 THEN 1 ELSE 0,
        dedicated_counter |-> IF opened /\ s2 THEN 2 ELSE 0,
        shared_counter |-> IF opened /\ s3 THEN 3 ELSE 0,
        initialized |-> opened,
        has_sampled_once |-> FALSE,
        adapter_info |-> DefaultAdapterInfo]

\* a collector that never counts as disabled
GpuDisabledNever(g) == FALSE

\* the guard of collect: the counter subsystem did not open
GpuDisabled(g) == ~ g.initialized \/ g.query = 0

\* a collector that never discards a sample
GpuWarmUpNever(g) == FALSE

\* the sample that only gives the rate counters their baseline
GpuWarmUp(g) == ~ g.has_sampled_once

\* the three reads of collect, each made only if its counter was added
GpuEngines(counter, ans) ==
    IF counter # 0 THEN collect_engine_data(<< >>, ans) ELSE << >>

GpuMemory(counter, per_pid, ans, shared) ==
    IF counter # 0 THEN collect_memory_data(per_pid, ans, shared) ELSE per_pid

GpuPerPid(g, eng, ded, shr) ==
    GpuMemory(g.shared_counter,
              GpuMemory(g.dedicated_counter, GpuEngines(g.engine_counter, eng), ded, FALSE),
              shr, TRUE)

\* the PDH calls of a collect that reads the counters
GpuCalls(g, eng, ded, shr) ==
    1 + (IF g.engine_counter # 0 THEN CounterArrayCalls(eng) ELSE 0)
      + (IF g.dedicated_counter # 0 THEN CounterArrayCalls(ded) ELSE 0)
      + (IF g.shared_counter # 0 THEN CounterArrayCalls(shr) ELSE 0)

\* f64::min(100.0)
GpuOverall(sum) == IF FracCmp(sum, FracOfInt(100)) > 0 THEN FracOfInt(100) ELSE sum

\* the end of collect: the adapter totals, and per_pid handed back
GpuAggregated(g, per_pid, calls) ==
    [g |-> [g EXCEPT !.adapter_info =
               [overall_usage |-> GpuOverall(SumUsage(per_pid, DOMAIN per_pid)),
                total_dedicated_mem |-> SumOver(per_pid, DOMAIN per_pid, "dedicated_mem"),
                total_shared_mem |-> SumOver(per_pid, DOMAIN per_pid, "shared_mem")]],
     out |-> per_pid, calls |-> calls, status |-> "ok"]

\* GpuCollector::collect on the collector g: the collector afterwards, the
\* per-process entries returned, the PDH calls made and the status of
\* PdhCollectQueryData
GpuCollect(g, collect_ok, eng, ded, shr) ==
    IF GpuDisabled(g)
    THEN [g |-> g, out |-> << >>, calls |-> 0, status |-> "none"]
    ELSE IF ~ collect_ok
    THEN [g |-> g, out |-> << >>, calls |-> 1, status |-> "failed"]
    ELSE IF GpuWarmUp(g)
    THEN [g |-> [g EXCEPT !.has_sampled_once = TRUE], out |-> << >>, calls |-> 1,
          status |-> "ok"]
    ELSE GpuAggregated(g, GpuPerPid(g, eng, ded, shr), GpuCalls(g, eng, ded, shr))

\* the collector as one record
GpuState ==
    [query |-> gpu_query, engine_counter |-> engine_counter,
     dedicated_counter |-> dedicated_counter, shared_counter |-> shared_counter,
     initialized |-> initialized, has_sampled_once |-> has_sampled_once,
     adapter_info |-> adapter_info]

\* the vectors the descending sort by gpu_usage can give, whatever order the
\* HashMap hands its values over in
SortedGpu(per_pid) ==
    LET n == Cardinality(DOMAIN per_pid)
        rows == { per_pid[p] : p \in DOMAIN per_pid }
    IN { s \in [1..n -> rows] :
           /\ \A i, j \in 1..n : i # j => s[i] # s[j]
           /\ \A i, j \in 1..n : i < j => FracCmp(s[j].gpu_usage, s[i].gpu_usage) <= 0 }

\* the sampler and the record of the call after a collect that gave `gpu`
GpuApply(gpu, gpu_ans) ==
    /\ gpu_query' = gpu.g.query
    /\ engine_counter' = gpu.g.engine_counter
    /\ dedicated_counter' = gpu.g.dedicated_counter
    /\ shared_counter' = gpu.g.shared_counter
    /\ initialized' = gpu.g.initialized
    /\ has_sampled_once' = gpu.g.has_sampled_once
    /\ adapter_info' = gpu.g.adapter_info
    /\ gpu_out' = { gpu.out[p] : p \in DOMAIN gpu.out }
    /\ gpu_calls' = gpu.calls
    /\ gpu_status' = gpu.status
    /\ h_gpu' = [sampled |-> has_sampled_once, ans |-> gpu_ans]

\* the GPU tab of a sample pass: collect, then sort by usage
GpuTab(gpu, gpu_ans) ==
    /\ gpu_processes' \in SortedGpu(gpu.out)
    /\ GpuApply(gpu, gpu_ans)

\* GpuCollector::collect called on the sampler alone, with the answers of
\* PdhCollectQueryData and of the three counter reads
GpuPoll(gpu_ans) ==
    /\ driven = "gpu"
    /\ GpuApply(GpuCollect(GpuState, gpu_ans.collect_ok, gpu_ans.eng, gpu_ans.ded,
                           gpu_ans.shr), gpu_ans)
    /\ UNCHANGED << driven, clock, collectorVars, appVars, trackerVars, passVars, pollVars,
                    callVars, searchCallVars, tagCallVars, refresh_skipped, mainVars >>

(***************************************************************************)
(* Collector::refresh                                                      *)
(***************************************************************************)
\* the comparator of the output sort: total bandwidth first, then connections
BandwidthOrdering(a, b) ==
    LET byRate == FracCmp(FracAdd(b.recv_bytes_per_sec, b.send_bytes_per_sec),
                          FracAdd(a.recv_bytes_per_sec, a.send_bytes_per_sec))
    IN IF byRate # 0 THEN byRate ELSE IntCmp(b.connection_count, a.connection_count)

\* the vectors a stable sort can give, whatever order the HashMap iterates in
SortedBandwidth(rows) ==
    LET n == Cardinality(rows)
    IN { s \in [1..n -> rows] :
           /\ \A i, j \in 1..n : i # j => s[i] # s[j]
           /\ \A i, j \in 1..n : i < j => BandwidthOrdering(s[i], s[j]) <= 0 }

\* the name of a pid of the connection table that is not in the process list
NetTabName(pid) ==
    IF pid = 4 THEN << "S", "y", "s", "t", "e", "m" >>
    ELSE << "P", "I", "D", ":" >> \o Decimal(pid)

\* the rows of the Net tab: the connection count of each pid with the I/O
\* rates of its process
NetTabRows(conn_counts, plist) ==
    { LET hit == { i \in DOMAIN plist : plist[i].pid = pid }
          first == CHOOSE i \in hit : \A j \in hit : i <= j
      IN [pid |-> pid,
          name |-> IF hit = {} THEN NetTabName(pid) ELSE plist[first].name,
          recv_bytes_per_sec |-> IF hit = {} THEN FracZero ELSE plist[first].io_read_rate,
          send_bytes_per_sec |-> IF hit = {} THEN FracZero ELSE plist[first].io_write_rate,
          connection_count |-> conn_counts[pid]]
      : pid \in DOMAIN conn_counts }

\* whether collect_processes refreshes win_data_cache and user_name_cache,
\* win_data_cache_ticks being the counter as the pass finds it
CacheDueAlways(ticks) == TRUE

CacheDue(ticks) == ticks = 0 \/ ticks % 3 = 0

\* whether it calls batch_process_times, `ticks` being the counter after its
\* increment
TimesDue(ticks) == ticks % 3 = 1

\* batch_process_times: the pids whose times could be read
BatchProcessTimes(procs) ==
    LET have == { i \in DOMAIN procs : procs[i].times # {} }
    IN [pid \in { procs[i].pid : i \in have } |->
          LET i == CHOOSE j \in have : procs[j].pid = pid
          IN CHOOSE t \in procs[i].times : TRUE]

\* everything of Collector::refresh after the pause check, for the passes
\* before max_ticks
SampleWithin(max_ticks, procs, host, total_rx, total_tx, conn_counts, gpu_ans, now) ==
    LET all_pids == { procs[i].pid : i \in DOMAIN procs }
        RawOf(pid) == procs[CHOOSE i \in DOMAIN procs : procs[i].pid = pid]
        refresh_cache == CacheDue(win_data_cache_ticks)
        sample_times == TimesDue(win_data_cache_ticks + 1)
        wcache == IF refresh_cache THEN [pid \in all_pids |-> RawOf(pid).win]
                  ELSE win_data_cache
        ucache == IF refresh_cache THEN [pid \in all_pids |-> RawOf(pid).user]
                  ELSE user_name_cache
        process_times == IF sample_times THEN BatchProcessTimes(procs) ELSE << >>
        plist == CollectProcesses(procs, wcache, ucache, process_times,
                                  prev_io_counters, now,
                                  host.total_mem, host.uptime, show_threads)
        nrates == NetRates(total_rx, total_tx, prev_net_rx, prev_net_tx,
                           prev_net_time, now)
        view == DeriveView(plist, user_filter, hide_kernel_threads, filter_query,
                           sort_field, sort_ascending, tree_view, collapsed_pids)
        fol == FollowProcess(view, follow_pid, selected_index, scroll_offset,
                             visible_rows)
        cl == ClampSelection(view, fol[1], fol[2])
    IN /\ tick < max_ticks
       /\ now >= clock
       /\ now <= MaxClock
       /\ clock' = now
       \* collect_network
       /\ network_info' = [rx_bytes_per_sec |-> nrates[1],
                           tx_bytes_per_sec |-> nrates[2],
                           total_rx |-> total_rx, total_tx |-> total_tx]
       /\ prev_net_rx' = total_rx
       /\ prev_net_tx' = total_tx
       /\ prev_net_time' = { now }
       \* collect_processes
       /\ win_data_cache' = wcache
       /\ user_name_cache' = ucache
       /\ win_data_cache_ticks' = win_data_cache_ticks + 1
       /\ processes' = plist
       /\ prev_io_counters' =
             RetainPids(InsertIoCounters(prev_io_counters, procs, now), all_pids)
       \* collect_users, apply_filter, sort_processes, build_tree_view
       /\ available_users' \in UserLists(plist)
       /\ filtered_processes' = view
       \* the Net tab
       /\ IF active_tab = "Net"
          THEN net_processes' \in SortedBandwidth(NetTabRows(conn_counts, plist))
          ELSE UNCHANGED net_processes
       \* the GPU tab
       /\ IF active_tab = "Gpu"
          THEN GpuTab(GpuCollect(GpuState, gpu_ans.collect_ok, gpu_ans.eng, gpu_ans.ded,
                                 gpu_ans.shr), gpu_ans)
          ELSE UNCHANGED << gpu_processes, gpuVars, gpuCallVars >>
       \* follow_process, clamp_selection
       /\ selected_index' = cl[1]
       /\ scroll_offset' = cl[2]
       /\ LET ncl == ClampSelection(connections, net_selected_index, net_scroll_offset)
          IN net_selected_index' = ncl[1] /\ net_scroll_offset' = ncl[2]
       /\ LET gcl == ClampSelection(gpu_processes', gpu_selected_index, gpu_scroll_offset)
          IN gpu_selected_index' = gcl[1] /\ gpu_scroll_offset' = gcl[2]
       /\ tick' = tick + 1
       /\ io_counters' = [pid \in all_pids |-> RawOf(pid).io]
       /\ current_pids' = all_pids
       /\ h_prev_io' = prev_io_counters
       /\ reappeared_pids' = all_pids \cap ((DOMAIN h_prev_io) \ current_pids)
       /\ h_prev_net' = [rx |-> prev_net_rx, tx |-> prev_net_tx,
                         time |-> prev_net_time]
       /\ h_batch' = [calls |-> { "batch_io_counters" }
                                \cup (IF refresh_cache
                                      THEN { "collect_process_data",
                                             "batch_process_users" }
                                      ELSE {})
                                \cup (IF sample_times
                                      THEN { "batch_process_times" } ELSE {}),
                      win |-> IF refresh_cache THEN wcache ELSE << >>,
                      users |-> IF refresh_cache THEN ucache ELSE << >>,
                      times |-> process_times]
       /\ h_cursor' = [selected_index |-> selected_index, scroll_offset |-> scroll_offset,
                       follow_pid |-> follow_pid,
                       found |-> \E f \in follow_pid : f \in PidsOf(view),
                       after |-> cl[1]]
       /\ last_call' = DeriveCall(tree_view)
       /\ h_filtered' = DeriveInput(plist, user_filter, hide_kernel_threads,
                                    filter_query, sort_field, sort_ascending,
                                    tree_view)
       /\ sort_log' = << >>
       /\ h_collapse' = NoCollapse
       /\ UNCHANGED << driven, otherApp, mode, user_menu_index, paused, visible_rows,
                       sort_field, sort_ascending,
                       filter_query, user_filter, follow_pid, tree_view,
                       collapsed_pids, show_threads, hide_kernel_threads,
                       search_query, search_not_found, tagged_pids, active_tab,
                       connections, configVars, trackerVars, pollVars,
                       searchCallVars, tagCallVars >>

\* a pass of the program: the passes before MaxTicks
SamplePass(procs, host, total_rx, total_tx, conn_counts, gpu_ans, now) ==
    SampleWithin(MaxTicks, procs, host, total_rx, total_tx, conn_counts, gpu_ans, now)

\* everything but refresh_skipped
observedVars ==
    << driven, clock, collectorVars, appVars, trackerVars, passVars, pollVars,
       callVars, gpuVars, gpuCallVars, searchCallVars, tagCallVars >>

\* a refresh that samples whether or not the pause flag is set
RefreshIgnoringPause(procs, host, total_rx, total_tx, conn_counts, gpu_ans, now) ==
    /\ driven = "collector"
    /\ refresh_skipped' = IF paused THEN ~ refresh_skipped ELSE refresh_skipped
    /\ SamplePass(procs, host, total_rx, total_tx, conn_counts, gpu_ans, now)
    /\ UNCHANGED mainVars

\* One sample pass over the processes `procs` the OS enumerates (each with
\* the answers of the per-process queries), the host totals, the interface
\* byte totals, the connection counts per pid and the answers of the GPU
\* counters, at instant `now`.
CollectorRefresh(procs, host, total_rx, total_tx, conn_counts, gpu_ans, now) ==
    /\ driven = "collector"
    /\ IF paused
       THEN /\ refresh_skipped' = ~ refresh_skipped
            /\ UNCHANGED observedVars
       ELSE /\ SamplePass(procs, host, total_rx, total_tx, conn_counts, gpu_ans, now)
            /\ UNCHANGED refresh_skipped

\* the same pass, called from outside run_app
Refresh(procs, host, total_rx, total_tx, conn_counts, gpu_ans, now) ==
    /\ CollectorRefresh(procs, host, total_rx, total_tx, conn_counts, gpu_ans, now)
    /\ UNCHANGED mainVars

(***************************************************************************)
(* The persisted settings (src/config.rs, src/color_scheme.rs)             *)
(***************************************************************************)
\* the keys of the boolean settings, in the order PstopConfig::save writes
\* them
BoolKeys ==
    << "tree_view", "show_tree_by_default", "hide_kernel_threads", "shadow_other_users",
       "highlight_base_name", "show_full_path", "show_merged_command",
       "highlight_megabytes", "highlight_threads", "header_margin", "detailed_cpu_time",
       "cpu_count_from_zero", "update_process_names", "show_thread_names", "enable_mouse" >>

BoolKeySet == { BoolKeys[i] : i \in DOMAIN BoolKeys }

\* the boolean settings that are fields of App without a variable of their
\* own in this module
DisplayKeys == BoolKeySet \ { "tree_view", "hide_kernel_threads", "enable_mouse" }

\* the boolean settings that PstopConfig::default, and App::new, turn on
DefaultOn ==
    { "highlight_base_name", "highlight_megabytes", "highlight_threads", "header_margin",
      "enable_mouse" }

\* ColorSchemeId::all: the variant at index i is ColorSchemes[i + 1]
ColorSchemes ==
    << "Default", "Monochrome", "BlackNight", "LightTerminal", "MidnightCommander",
       "BlackOnWhite", "DarkVivid" >>

\* ColorSchemeId::from_index
from_index(idx) == IF idx < Len(ColorSchemes) THEN ColorSchemes[idx + 1] ELSE "Default"

\* the columns App::new shows
NewColumns ==
    { "Pid", "User", "Priority", "Nice", "VirtMem", "ResMem", "SharedMem", "Status",
      "Cpu", "Mem", "Time", "Command" }

\* PstopConfig::default
DefaultConfig ==
    [flags |-> [k \in BoolKeySet |-> k \in DefaultOn],
     update_interval_ms |-> 1500,
     color_scheme_id |-> "Default",
     sort_field |-> "Cpu",
     sort_ascending |-> FALSE,
     visible_columns |-> SortFieldsAll]

(***************************************************************************)
(* Construction: App::new, Collector::new, NetBandwidthTracker::new        *)
(***************************************************************************)
Constructed ==
    /\ clock = 0
    /\ win_data_cache = << >>
    /\ user_name_cache = << >>
    /\ win_data_cache_ticks = 0
    /\ prev_io_counters = << >>
    /\ prev_net_rx = 0
    /\ prev_net_tx = 0
    /\ prev_net_time = {}
    /\ mode = "Normal"
    /\ user_menu_index = 0
    /\ paused = FALSE
    /\ tick = 0
    /\ network_info = [rx_bytes_per_sec |-> FracZero, tx_bytes_per_sec |-> FracZero,
                       total_rx |-> 0, total_tx |-> 0]
    /\ processes = << >>
    /\ filtered_processes = << >>
    /\ selected_index = 0
    /\ scroll_offset = 0
    /\ visible_rows = 20
    /\ sort_field = "Cpu"
    /\ sort_ascending = FALSE
    /\ filter_query = << >>
    /\ user_filter = {}
    /\ available_users = << >>
    /\ follow_pid = {}
    /\ tree_view = FALSE
    /\ collapsed_pids = {}
    /\ show_threads = FALSE
    /\ hide_kernel_threads = FALSE
    /\ prev_bytes = << >>
    /\ enabled_set = {}
    /\ admin_ok = "None"
    /\ last_poll = 0
    /\ io_counters = << >>
    /\ current_pids = {}
    /\ h_prev_io = << >>
    /\ h_prev_net = [rx |-> 0, tx |-> 0, time |-> {}]
    /\ h_cursor = [selected_index |-> 0, scroll_offset |-> 0, follow_pid |-> {},
                   found |-> FALSE, after |-> 0]
    /\ h_batch = [calls |-> {}, win |-> << >>, users |-> << >>, times |-> << >>]
    /\ net_out = << >>
    /\ current_keys = {}
    /\ estats_read = [read |-> << >>, delta |-> << >>]
    /\ h_prev_bytes = << >>
    /\ reappeared_pids = {}
    /\ reappeared_keys = {}
    /\ last_call = "new"
    /\ h_collapse = NoCollapse
    /\ h_filtered = << >>
    /\ sort_log = << >>
    /\ search_query = << >>
    /\ search_not_found = FALSE
    /\ tagged_pids = {}
    /\ active_tab = "Main"
    /\ connections = << >>
    /\ net_processes = << >>
    /\ net_selected_index = 0
    /\ net_scroll_offset = 0
    /\ gpu_processes = << >>
    /\ gpu_selected_index = 0
    /\ gpu_scroll_offset = 0
    /\ update_interval_ms = 1500
    /\ setup_menu_index = 0
    /\ setup_category = 0
    /\ setup_panel = 0
    /\ config_loaded = FALSE
    /\ should_quit = FALSE
    /\ enable_mouse = TRUE
    /\ visible_columns = NewColumns
    /\ color_scheme_id = "Default"
    /\ display_on = DefaultOn \ { "enable_mouse" }
    /\ run_at = "load"
    /\ config_saves = 0
    /\ setup_toggles = 0
    /\ h_after_quit = [pass |-> FALSE, dispatch |-> FALSE]
    /\ h_killed = [pids |-> {}, listed |-> {}]
    /\ \E open_ok, s1, s2, s3 \in BOOLEAN :
          LET g == GpuNew(open_ok, s1, s2, s3)
          IN /\ gpu_query = g.query
             /\ engine_counter = g.engine_counter
             /\ dedicated_counter = g.dedicated_counter
             /\ shared_counter = g.shared_counter
             /\ initialized = g.initialized
             /\ has_sampled_once = g.has_sampled_once
             /\ adapter_info = g.adapter_info
    /\ late_enables = {}
    /\ late_reads = {}
    /\ h_first_enable = "none"
    /\ refresh_skipped = FALSE
    /\ search_visited = << >>
    /\ h_search = [list |-> << >>, query |-> << >>, from |-> 0, not_found |-> FALSE]
    /\ h_search_prev = NoSearchPrev
    /\ tag_trace = [taken |-> << >>, to_tag |-> << >>]
    /\ h_tag_input = [list |-> << >>, selected |-> 0]
    /\ h_tagged = [before |-> {}, after |-> {}]
    /\ gpu_out = {}
    /\ gpu_calls = 0
    /\ gpu_status = "none"
    /\ h_gpu = [sampled |-> FALSE,
                ans |-> [collect_ok |-> TRUE,
                         eng |-> [more_data |-> FALSE, second_ok |-> FALSE, items |-> << >>],
                         ded |-> [more_data |-> FALSE, second_ok |-> FALSE, items |-> << >>],
                         shr |-> [more_data |-> FALSE, second_ok |-> FALSE, items |-> << >>]]]

(***************************************************************************)
(* NetBandwidthTracker (src/system/netstat.rs)                             *)
(***************************************************************************)
fallback_name(pid) ==
    IF pid = 0 THEN << "S", "y", "s", "t", "e", "m", " ", "I", "d", "l", "e" >>
    ELSE IF pid = 4 THEN << "S", "y", "s", "t", "e", "m" >>
    ELSE << "P", "I", "D", ":" >> \o Decimal(pid)

\* Accum::new
NewAccum(name) == [name |-> name, din |-> 0, dout |-> 0, tcp |-> 0, udp |-> 0]

\* acc.entry(pid).or_insert_with(...)
AccEntry(acc, pid, pid_names) ==
    IF pid \in DOMAIN acc THEN acc
    ELSE MapPut(acc, pid,
                NewAccum(IF pid \in DOMAIN pid_names THEN pid_names[pid]
                         ELSE fallback_name(pid)))

\* an enable step that lets any failed attempt mark the tracker disabled
ProbeEnableDowngrading(st, c, key) ==
    IF key \in st.enabled THEN [st EXCEPT !.stop = FALSE]
    ELSE LET s0 == [st EXCEPT !.late_enables =
                                  IF st.failed THEN @ \cup {key} ELSE @,
                              !.first = IF @ # "none" THEN @
                                        ELSE IF c.set_ok THEN "ok" ELSE "failed"]
         IN IF c.set_ok
            THEN [s0 EXCEPT !.enabled = @ \cup {key},
                            !.admin = IF @ = "None" THEN "SomeTrue" ELSE @,
                            !.stop = FALSE]
            ELSE [s0 EXCEPT !.admin = "SomeFalse", !.failed = TRUE, !.stop = TRUE]

\* the first half of probe_v4/probe_v6: enable the statistics of a connection
\* not yet in enabled_set; `stop` is the early return
ProbeEnable(st, c, key) ==
    IF key \in st.enabled THEN [st EXCEPT !.stop = FALSE]
    ELSE LET s0 == [st EXCEPT !.late_enables =
                                  IF st.failed THEN @ \cup {key} ELSE @,
                              !.first = IF @ # "none" THEN @
                                        ELSE IF c.set_ok THEN "ok" ELSE "failed"]
         IN IF c.set_ok
            THEN [s0 EXCEPT !.enabled = @ \cup {key},
                            !.admin = IF @ = "None" THEN "SomeTrue" ELSE @,
                            !.stop = FALSE]
            ELSE IF st.admin = "None"
            THEN [s0 EXCEPT !.admin = "SomeFalse", !.failed = TRUE, !.stop = TRUE]
            ELSE [s0 EXCEPT !.stop = FALSE]

\* the second half: read the cumulative bytes and add the deltas to the
\* accumulator of the owning pid
ProbeRead(st, c, key) ==
    IF st.admin = "SomeTrue"
    THEN LET s0 == [st EXCEPT !.late_reads = IF st.failed THEN @ \cup {key} ELSE @]
         IN IF c.stats # {}
            THEN LET b == CHOOSE b \in c.stats : TRUE
                     prev == IF key \in DOMAIN st.prev THEN st.prev[key] ELSE << 0, 0 >>
                     din == SaturatingSub(b[1], prev[1])
                     dout == SaturatingSub(b[2], prev[2])
                 IN [s0 EXCEPT !.acc[c.pid].din = @ + din,
                               !.acc[c.pid].dout = @ + dout,
                               !.prev = MapPut(@, key, b),
                               !.delta = MapPut(@, key, << din, dout >>),
                               !.read = MapPut(@, key, b)]
            ELSE s0
    ELSE st

probe_v4(st, c, key) ==
    LET s1 == ProbeEnable(st, c, key)
    IN IF s1.stop THEN s1 ELSE ProbeRead(s1, c, key)

probe_v6(st, c, key) ==
    LET s1 == ProbeEnable(st, c, key)
    IN IF s1.stop THEN s1 ELSE ProbeRead(s1, c, key)

\* one iteration of the loop over the TCP table of one address family
TcpStep(st, c, try_stats, pid_names, v6) ==
    LET s1 == [st EXCEPT !.keys = @ \cup {c.key},
                         !.acc = AccEntry(@, c.pid, pid_names)]
        s2 == [s1 EXCEPT !.acc[c.pid].tcp = @ + 1]
    IN IF try_stats /\ c.state = 5
       THEN ( IF v6 THEN probe_v6(s2, c, c.key) ELSE probe_v4(s2, c, c.key) )
       ELSE s2

RECURSIVE TcpLoop(_, _, _, _, _)
TcpLoop(st, conns, try_stats, pid_names, v6) ==
    IF conns = << >> THEN st
    ELSE TcpLoop(TcpStep(st, Head(conns), try_stats, pid_names, v6), Tail(conns),
                 try_stats, pid_names, v6)

\* the loop over one UDP endpoint count table
RECURSIVE UdpLoop(_, _, _)
UdpLoop(acc, udp, pid_names) ==
    IF DOMAIN udp = {} THEN acc
    ELSE LET pid == CHOOSE p \in DOMAIN udp : TRUE
             a1 == AccEntry(acc, pid, pid_names)
         IN UdpLoop([a1 EXCEPT ![pid].udp = @ + udp[pid]],
                    [p \in (DOMAIN udp) \ {pid} |-> udp[p]], pid_names)

\* prev_bytes.retain / enabled_set.retain
RetainKeys(cache, keys) == [k \in (DOMAIN cache) \cap keys |-> cache[k]]

\* NetBandwidthTracker::collect
NetCollect(tcp4, tcp6, udp4, udp6, pid_names, now) ==
    /\ driven = "tracker"
    /\ now >= clock
    /\ now <= MaxClock
    /\ clock' = now
    /\ LET elapsed == DurationSince(now, last_poll)
       IN IF elapsed * 20 < TicksPerSecond
          THEN /\ net_out' = << >>
               /\ UNCHANGED << trackerVars, current_keys, estats_read, h_prev_bytes,
                               reappeared_keys, late_enables, late_reads,
                               h_first_enable >>
          ELSE LET try_stats == admin_ok # "SomeFalse"
                   st0 == [enabled |-> enabled_set, admin |-> admin_ok,
                           prev |-> prev_bytes, acc |-> << >>, keys |-> {},
                           delta |-> << >>, read |-> << >>, stop |-> FALSE,
                           failed |-> admin_ok = "SomeFalse", late_enables |-> {},
                           late_reads |-> {}, first |-> h_first_enable]
                   st4 == TcpLoop(st0, tcp4, try_stats, pid_names, FALSE)
                   st6 == TcpLoop(st4, tcp6, try_stats, pid_names, TRUE)
                   acc == UdpLoop(UdpLoop(st6.acc, udp4, pid_names), udp6, pid_names)
                   rows == { [pid |-> pid,
                              name |-> acc[pid].name,
                              recv_bytes_per_sec |-> BytesPerSec(acc[pid].din, elapsed),
                              send_bytes_per_sec |-> BytesPerSec(acc[pid].dout, elapsed),
                              connection_count |-> acc[pid].tcp + acc[pid].udp]
                            : pid \in (DOMAIN acc) \ {0} }
               IN /\ prev_bytes' = RetainKeys(st6.prev, st6.keys)
                  /\ enabled_set' = st6.enabled \cap st6.keys
                  /\ admin_ok' = st6.admin
                  /\ last_poll' = now
                  /\ net_out' \in SortedBandwidth(rows)
                  /\ current_keys' = st6.keys
                  /\ estats_read' = [read |-> st6.read, delta |-> st6.delta]
                  /\ h_prev_bytes' = prev_bytes
                  /\ reappeared_keys' = st6.keys \cap ((DOMAIN h_prev_bytes) \ current_keys)
                  /\ late_enables' = st6.late_enables
                  /\ late_reads' = st6.late_reads
                  /\ h_first_enable' = st6.first
    /\ UNCHANGED << driven, collectorVars, appVars, passVars, callVars, gpuVars,
                    gpuCallVars, searchCallVars, tagCallVars, refresh_skipped, mainVars >>

(***************************************************************************)
(* Inputs: what the operating system reports                               *)
(***************************************************************************)
StrSvc == << "s", "v", "c" >>

StrSvcWorker == << "s", "v", "c", "-", "w", "o", "r", "k", "e", "r" >>

StrOther == << "o", "t", "h", "e", "r" >>

StrAnn == << "a", "n", "n" >>

StrBob == << "B", "o", "b" >>

\* what stays the same of a process from pass to pass
ProfSvc ==
    [name |-> StrSvc, command |-> StrSvc \o << " ", "-", "d" >>, status |-> "Run",
     virt |-> 300, resident |-> 200, cpu_usage |-> FracOfInt(5), run_time |-> 60,
     times |-> { 615 },
     win |-> [priority |-> 8, nice |-> 0, thread_count |-> 4,
              private_working_set |-> 150],
     user |-> StrAnn, threads |-> << >>]

\* one row of the process enumeration, with the answers to its queries
OsProc(pid, ppid, prof, io) ==
    [pid |-> pid, ppid |-> ppid, name |-> prof.name, command |-> prof.command,
     status |-> prof.status, virt |-> prof.virt, resident |-> prof.resident,
     cpu_usage |-> prof.cpu_usage, run_time |-> prof.run_time, io |-> io,
     win |-> prof.win, user |-> prof.user, times |-> prof.times,
     threads |-> prof.threads]

\* sys.total_memory() and real_uptime()
Host == [total_mem |-> 1000, uptime |-> 3600]

\* cumulative (read, write) and (rx, tx) byte counters
IoSamples == { << 1000, 200 >>, << 1500, 1000 >>, << 200, 1500 >> }

NetSamples == { << 1000, 200 >>, << 200, 1500 >> }

\* cumulative (in, out) bytes of a connection
ByteSamples == { << 1000, 200 >>, << 200, 1500 >> }

RatePids == 1..NumRatePids

\* the enumerations of the rate specification: any subset of the pids, pid 1
\* with any counter sample, the other pids idle at the first sample
RateSnapshots ==
    UNION { { LET idx == IndicesFrom(1, NumRatePids, S)
              IN [k \in DOMAIN idx |-> OsProc(idx[k], 0, ProfSvc, f[idx[k]])]
              : f \in { g \in [S -> IoSamples] :
                           \A pid \in S \ { 1 } : g[pid] = << 1000, 200 >> } }
            : S \in SUBSET RatePids }

\* what the OS answers for one connection: its TCP state, whether
\* SetPerTcpConnectionEStats succeeds, what GetPerTcpConnectionEStats returns
ConnAnswers ==
    { [state |-> 2, set_ok |-> FALSE, stats |-> {}] }
    \cup { [state |-> 5, set_ok |-> b, stats |-> s] :
              b \in BOOLEAN, s \in { {} } \cup { { x } : x \in ByteSamples } }

\* the TCP tables of one address family: connection i belongs to pid i
TcpTables(family) ==
    UNION { { LET idx == IndicesFrom(1, NumConns, S)
              IN [k \in DOMAIN idx |->
                    [key |-> << family, idx[k] >>, pid |-> idx[k],
                     state |-> f[idx[k]].state, set_ok |-> f[idx[k]].set_ok,
                     stats |-> f[idx[k]].stats]]
              : f \in [S -> ConnAnswers] } : S \in SUBSET (1..NumConns) }

\* UDP endpoint counts per pid, IPv4 and IPv6
UdpV4 == (2 :> 1)

UdpV6 == (1 :> 2)

PidNames == (1 :> StrSvc)

\* count_connections_per_pid() on a host without connections
NoConnections == << >>

\* a PdhGetFormattedCounterArrayW that hands over no items
NoItems == [more_data |-> FALSE, second_ok |-> FALSE, items |-> << >>]

\* the answers of the GPU counters on a host where no process uses the GPU
GpuIdle == [collect_ok |-> TRUE, eng |-> NoItems, ded |-> NoItems, shr |-> NoItems]

\* a host on which GpuCollector::new opened the query and added all three counters
GpuReady ==
    initialized /\ engine_counter # 0 /\ dedicated_counter # 0 /\ shared_counter # 0

(***************************************************************************)
(* SpecRate: the rate trackers under any sequence of samples               *)
(***************************************************************************)
InitRate == Constructed /\ GpuReady /\ driven \in { "collector", "tracker" }

RefreshRate ==
    \E procs \in RateSnapshots, nt \in NetSamples, dt \in 0..MaxDt :
        Refresh(procs, Host, nt[1], nt[2], NoConnections, GpuIdle, clock + dt)

PollRate ==
    \E tcp4 \in TcpTables("V4"), tcp6 \in TcpTables("V6"), dt \in 0..MaxDt :
        NetCollect(tcp4, tcp6, UdpV4, UdpV6, PidNames, clock + dt)

NextRate == RefreshRate \/ PollRate

SpecRate == InitRate /\ [][NextRate]_vars

(***************************************************************************)
(* App: the methods that rebuild filtered_processes (src/app.rs)           *)
(***************************************************************************)
\* what no key of the process view writes: the other objects, the
\* configuration, the quit flag and the settings of the setup menu
outsideApp == << driven, clock, collectorVars, trackerVars, passVars, pollVars, gpuVars,
                gpuCallVars, refresh_skipped, configVars, mainVars, otherApp >>

sampledVars == << tick, network_info, available_users >>

searchVars == << search_query, search_not_found >>

tabLists == << active_tab, connections, net_processes, gpu_processes >>

tabSelections == << net_selected_index, net_scroll_offset, gpu_selected_index,
                   gpu_scroll_offset >>

tabVars == << tabLists, tabSelections >>

\* the App fields no key of the process tab touches, but for the selections
\* of the other tabs
restOfMain == << paused, sampledVars, follow_pid, show_threads, searchVars, tagged_pids,
                tabLists, searchCallVars, tagCallVars, otherApp >>

restOfApp == << restOfMain, tabSelections >>

selectionVars == << selected_index, scroll_offset, visible_rows >>

sortVars == << sort_field, sort_ascending >>

filterVars == << filter_query, user_filter, hide_kernel_threads >>

treeVars == << tree_view, collapsed_pids >>

menuVars == << mode, user_menu_index >>

\* sort_log after one more sort_processes; the three latest are kept
LogSort(log, ascending, out) ==
    LET all == Append(log, [ascending |-> ascending, out |-> out])
    IN IF Len(all) > 3 THEN Tail(all) ELSE all

\* App::apply_filter
apply_filter ==
    /\ filtered_processes' =
          FilterList(processes, user_filter, hide_kernel_threads, filter_query)
    /\ last_call' = "apply_filter"
    /\ h_filtered' = processes
    /\ sort_log' = << >>
    /\ h_collapse' = NoCollapse
    /\ UNCHANGED << outsideApp, restOfApp, processes, selectionVars, sortVars,
                    filterVars, treeVars, menuVars >>

\* App::sort_processes
sort_processes ==
    /\ filtered_processes' = SortList(filtered_processes, sort_field, sort_ascending)
    /\ last_call' = "sort_processes"
    /\ h_filtered' = filtered_processes
    /\ sort_log' = LogSort(sort_log, sort_ascending, filtered_processes')
    /\ h_collapse' = NoCollapse
    /\ UNCHANGED << outsideApp, restOfApp, processes, selectionVars, sortVars,
                    filterVars, treeVars, menuVars >>

\* App::build_tree_view
build_tree_view ==
    /\ filtered_processes' = BuildTreeView(filtered_processes, collapsed_pids)
    /\ last_call' = "build_tree_view"
    /\ h_filtered' = filtered_processes
    /\ sort_log' = << >>
    /\ h_collapse' = NoCollapse
    /\ UNCHANGED << outsideApp, restOfApp, processes, selectionVars, sortVars,
                    filterVars, treeVars, menuVars >>

\* filtered_processes after one of the three methods: apply_filter builds it
\* from the process list, the other two rearrange it in place
MethodResult(method, shown, list, ufilter, hide_kernel, query, field, ascending, collapsed) ==
    CASE method = "apply_filter" -> FilterList(list, ufilter, hide_kernel, query)
      [] method = "sort_processes" -> SortList(shown, field, ascending)
      [] method = "build_tree_view" -> BuildTreeView(shown, collapsed)

\* filtered_processes after the methods of `calls`, one after the other
RECURSIVE RunMethods(_, _, _, _, _, _, _, _, _)
RunMethods(calls, shown, list, ufilter, hide_kernel, query, field, ascending, collapsed) ==
    IF calls = << >> THEN shown
    ELSE RunMethods(Tail(calls),
                    MethodResult(Head(calls), shown, list, ufilter, hide_kernel, query,
                                 field, ascending, collapsed),
                    list, ufilter, hide_kernel, query, field, ascending, collapsed)

\* App::set_sort_field: the new (sort_field, sort_ascending)
SetSortField(cur_field, cur_ascending, field) ==
    IF cur_field = field THEN << field, ~ cur_ascending >> ELSE << field, FALSE >>

\* App::select_prev on the process tab: the new (selected_index, scroll_offset)
SelectPrev(sel, scroll) ==
    IF sel > 0
    THEN << sel - 1, IF sel - 1 < scroll THEN sel - 1 ELSE scroll >>
    ELSE << sel, scroll >>

\* App::select_next on the process tab: the new (selected_index, scroll_offset)
SelectNext(list, sel, scroll, rows) ==
    LET max == IF Len(list) > 0 THEN Len(list) - 1 ELSE 0
    IN IF sel < max
       THEN << sel + 1, IF sel + 1 >= scroll + rows THEN sel + 1 - rows + 1 ELSE scroll >>
       ELSE << sel, scroll >>

\* App::selected_process: the pid under the cursor, if any
SelectedPid(list, sel) == IF sel < Len(list) THEN { list[sel + 1].pid } ELSE {}

(***************************************************************************)
(* Key handlers (src/input.rs)                                             *)
(***************************************************************************)
\* a key that rebuilds nothing: filtered_processes is no longer the result
\* of a method under the criteria now in force
NoListCall ==
    /\ last_call' = "key"
    /\ h_filtered' = << >>
    /\ h_collapse' = NoCollapse

\* apply_filter, sort_processes, build_tree_view in tree view, and
\* clamp_selection, under the filter criteria given
Rederive(query, ufilter) ==
    LET view == DeriveView(processes, ufilter, hide_kernel_threads, query,
                           sort_field, sort_ascending, tree_view, collapsed_pids)
        cl == ClampSelection(view, selected_index, scroll_offset)
    IN /\ filtered_processes' = view
       /\ selected_index' = cl[1]
       /\ scroll_offset' = cl[2]
       /\ last_call' = DeriveCall(tree_view)
       /\ h_filtered' = DeriveInput(processes, ufilter, hide_kernel_threads, query,
                                    sort_field, sort_ascending, tree_view)
       /\ sort_log' = << >>
       /\ h_collapse' = NoCollapse

\* App::select_prev on the active tab
select_prev ==
    IF active_tab = "Net"
    THEN /\ LET r == SelectPrev(net_selected_index, net_scroll_offset)
            IN net_selected_index' = r[1] /\ net_scroll_offset' = r[2]
         /\ UNCHANGED << selected_index, scroll_offset, gpu_selected_index,
                         gpu_scroll_offset >>
    ELSE IF active_tab = "Gpu"
    THEN /\ LET r == SelectPrev(gpu_selected_index, gpu_scroll_offset)
            IN gpu_selected_index' = r[1] /\ gpu_scroll_offset' = r[2]
         /\ UNCHANGED << selected_index, scroll_offset, net_selected_index,
                         net_scroll_offset >>
    ELSE /\ LET r == SelectPrev(selected_index, scroll_offset)
            IN selected_index' = r[1] /\ scroll_offset' = r[2]
         /\ UNCHANGED tabSelections

\* App::select_next on the active tab
select_next ==
    IF active_tab = "Net"
    THEN /\ LET r == SelectNext(connections, net_selected_index, net_scroll_offset,
                                visible_rows)
            IN net_selected_index' = r[1] /\ net_scroll_offset' = r[2]
         /\ UNCHANGED << selected_index, scroll_offset, gpu_selected_index,
                         gpu_scroll_offset >>
    ELSE IF active_tab = "Gpu"
    THEN /\ LET r == SelectNext(gpu_processes, gpu_selected_index, gpu_scroll_offset,
                                visible_rows)
            IN gpu_selected_index' = r[1] /\ gpu_scroll_offset' = r[2]
         /\ UNCHANGED << selected_index, scroll_offset, net_selected_index,
                         net_scroll_offset >>
    ELSE /\ LET r == SelectNext(filtered_processes, selected_index, scroll_offset,
                                visible_rows)
            IN selected_index' = r[1] /\ scroll_offset' = r[2]
         /\ UNCHANGED tabSelections

\* Up
KeyUp ==
    /\ mode = "Normal"
    /\ select_prev
    /\ UNCHANGED << outsideApp, restOfMain, processes, filtered_processes, visible_rows,
                    sortVars, filterVars, treeVars, menuVars, callVars >>

\* Down
KeyDown ==
    /\ mode = "Normal"
    /\ select_next
    /\ UNCHANGED << outsideApp, restOfMain, processes, filtered_processes, visible_rows,
                    sortVars, filterVars, treeVars, menuVars, callVars >>

\* F4
KeyFilter ==
    /\ mode = "Normal"
    /\ mode' = "Filter"
    /\ UNCHANGED << outsideApp, restOfApp, processes, filtered_processes, selectionVars,
                    sortVars, filterVars, treeVars, user_menu_index, callVars >>

\* F5, t
KeyTree ==
    /\ mode = "Normal"
    /\ tree_view' = ~ tree_view
    /\ IF tree_view'
       THEN /\ filtered_processes' = BuildTreeView(filtered_processes, collapsed_pids)
            /\ last_call' = "build_tree_view"
            /\ h_filtered' = filtered_processes
            /\ h_collapse' = NoCollapse
       ELSE /\ UNCHANGED filtered_processes
            /\ NoListCall
    /\ sort_log' = << >>
    /\ UNCHANGED << outsideApp, restOfApp, processes, selectionVars, sortVars,
                    filterVars, collapsed_pids, menuVars >>

\* P, M, T, N
KeySortShortcut(field) ==
    /\ mode = "Normal"
    /\ LET r == SetSortField(sort_field, sort_ascending, field)
       IN sort_field' = r[1] /\ sort_ascending' = r[2]
    /\ sort_log' = IF field = sort_field THEN sort_log ELSE << >>
    /\ NoListCall
    /\ UNCHANGED << outsideApp, restOfApp, processes, filtered_processes, selectionVars,
                    filterVars, treeVars, menuVars >>

\* the position of a field in ProcessSortField::all(), from 0
FieldIndex(field) ==
    (CHOOSE i \in DOMAIN SortFieldsAll : SortFieldsAll[i] = field) - 1

\* cycle_sort_field, for the keys < and >
cycle_sort_field(forward) ==
    /\ mode = "Normal"
    /\ LET n == Len(SortFieldsAll)
           current_idx == FieldIndex(sort_field)
           new_idx == IF forward THEN (current_idx + 1) % n
                      ELSE IF current_idx = 0 THEN n - 1 ELSE current_idx - 1
       IN sort_field' = SortFieldsAll[new_idx + 1]
    /\ sort_log' = << >>
    /\ NoListCall
    /\ UNCHANGED << outsideApp, restOfApp, processes, filtered_processes, selectionVars,
                    sort_ascending, filterVars, treeVars, menuVars >>

\* I
KeyInvert ==
    /\ mode = "Normal"
    /\ sort_ascending' = ~ sort_ascending
    /\ NoListCall
    /\ UNCHANGED << outsideApp, restOfApp, processes, filtered_processes, selectionVars,
                    sort_field, filterVars, treeVars, menuVars, sort_log >>

\* u
KeyUser ==
    /\ mode = "Normal"
    /\ user_menu_index' = 0
    /\ mode' = "UserFilter"
    /\ UNCHANGED << outsideApp, restOfApp, processes, filtered_processes, selectionVars,
                    sortVars, filterVars, treeVars, callVars >>

\* K
KeyHideKernel ==
    /\ mode = "Normal"
    /\ hide_kernel_threads' = ~ hide_kernel_threads
    /\ NoListCall
    /\ sort_log' = << >>
    /\ UNCHANGED << outsideApp, restOfApp, processes, filtered_processes, selectionVars,
                    sortVars, filter_query, user_filter, treeVars, menuVars >>

\* +, = : expand the subtree under the cursor
KeyExpand ==
    /\ mode = "Normal"
    /\ LET pid == SelectedPid(filtered_processes, selected_index)
       IN IF tree_view /\ pid # {}
          THEN /\ collapsed_pids' = collapsed_pids \ pid
               /\ filtered_processes' = BuildTreeView(filtered_processes, collapsed_pids')
               /\ last_call' = "build_tree_view"
               /\ h_filtered' = filtered_processes
               /\ sort_log' = << >>
               /\ h_collapse' = NoCollapse
          ELSE UNCHANGED << collapsed_pids, filtered_processes, callVars >>
    /\ UNCHANGED << outsideApp, restOfApp, processes, selectionVars, sortVars,
                    filterVars, tree_view, menuVars >>

\* - : collapse the subtree under the cursor
KeyCollapse ==
    /\ mode = "Normal"
    /\ LET pid == SelectedPid(filtered_processes, selected_index)
       IN IF tree_view /\ pid # {}
          THEN /\ collapsed_pids' = collapsed_pids \cup pid
               /\ filtered_processes' = BuildTreeView(filtered_processes, collapsed_pids')
               /\ last_call' = "build_tree_view"
               /\ h_filtered' = filtered_processes
               /\ sort_log' = << >>
               /\ h_collapse' = IF pid \subseteq collapsed_pids THEN NoCollapse
                                ELSE [pid |-> pid, before |-> filtered_processes]
          ELSE UNCHANGED << collapsed_pids, filtered_processes, callVars >>
    /\ UNCHANGED << outsideApp, restOfApp, processes, selectionVars, sortVars,
                    filterVars, tree_view, menuVars >>

\* * : expand every collapsed subtree
KeyExpandAll ==
    /\ mode = "Normal"
    /\ IF tree_view
       THEN /\ collapsed_pids' = {}
            /\ filtered_processes' = BuildTreeView(filtered_processes, {})
            /\ last_call' = "build_tree_view"
            /\ h_filtered' = filtered_processes
            /\ sort_log' = << >>
            /\ h_collapse' = NoCollapse
       ELSE UNCHANGED << collapsed_pids, filtered_processes, callVars >>
    /\ UNCHANGED << outsideApp, restOfApp, processes, selectionVars, sortVars,
                    filterVars, tree_view, menuVars >>

\* handle_filter_mode, Esc
FilterKeyEsc ==
    /\ mode = "Filter"
    /\ filter_query' = << >>
    /\ Rederive(<< >>, user_filter)
    /\ mode' = "Normal"
    /\ UNCHANGED << outsideApp, restOfApp, processes, visible_rows, sortVars,
                    user_filter, hide_kernel_threads, treeVars, user_menu_index >>

\* handle_filter_mode, Enter
FilterKeyEnter ==
    /\ mode = "Filter"
    /\ mode' = "Normal"
    /\ UNCHANGED << outsideApp, restOfApp, processes, filtered_processes, selectionVars,
                    sortVars, filterVars, treeVars, user_menu_index, callVars >>

\* handle_filter_mode, Backspace: String::pop
FilterKeyBackspace ==
    /\ mode = "Filter"
    /\ filter_query' = IF filter_query = << >> THEN << >>
                       ELSE SubSeq(filter_query, 1, Len(filter_query) - 1)
    /\ Rederive(filter_query', user_filter)
    /\ UNCHANGED << outsideApp, restOfApp, processes, visible_rows, sortVars,
                    user_filter, hide_kernel_threads, treeVars, menuVars >>

\* handle_filter_mode, a character key
FilterKeyChar(c) ==
    /\ mode = "Filter"
    /\ Len(filter_query) < MaxQueryLen
    /\ filter_query' = Append(filter_query, c)
    /\ Rederive(filter_query', user_filter)
    /\ UNCHANGED << outsideApp, restOfApp, processes, visible_rows, sortVars,
                    user_filter, hide_kernel_threads, treeVars, menuVars >>

\* handle_user_filter_mode, Esc
UserKeyEsc ==
    /\ mode = "UserFilter"
    /\ mode' = "Normal"
    /\ UNCHANGED << outsideApp, restOfApp, processes, filtered_processes, selectionVars,
                    sortVars, filterVars, treeVars, user_menu_index, callVars >>

\* handle_user_filter_mode, Up
UserKeyUp ==
    /\ mode = "UserFilter"
    /\ user_menu_index' = IF user_menu_index > 0 THEN user_menu_index - 1
                          ELSE user_menu_index
    /\ UNCHANGED << outsideApp, restOfApp, processes, filtered_processes, selectionVars,
                    sortVars, filterVars, treeVars, mode, callVars >>

\* handle_user_filter_mode, Down
UserKeyDown ==
    /\ mode = "UserFilter"
    /\ user_menu_index' = IF user_menu_index < Len(available_users)
                          THEN user_menu_index + 1 ELSE user_menu_index
    /\ UNCHANGED << outsideApp, restOfApp, processes, filtered_processes, selectionVars,
                    sortVars, filterVars, treeVars, mode, callVars >>

\* handle_user_filter_mode, Enter
UserKeyEnter ==
    /\ mode = "UserFilter"
    /\ user_filter' = IF user_menu_index = 0 THEN {}
                      ELSE IF user_menu_index - 1 < Len(available_users)
                      THEN { available_users[user_menu_index] }
                      ELSE user_filter
    /\ Rederive(filter_query, user_filter')
    /\ mode' = "Normal"
    /\ UNCHANGED << outsideApp, restOfApp, processes, visible_rows, sortVars,
                    filter_query, hide_kernel_threads, treeVars, user_menu_index >>

(***************************************************************************)
(* App: search (src/app.rs) and handle_search_mode (src/input.rs)          *)
(***************************************************************************)
\* the test of the search loops: name or command holds the lower-cased query
SearchMatches(p, query) ==
    \/ StrContains(ToLower(p.name), query)
    \/ StrContains(ToLower(p.command), query)

\* the index search_next starts from
SearchStartAtSelection(sel) == sel

SearchStart(sel) == sel + 1

\* the loop of search_next from `offset` on: the index found, if any, and
\* the indices examined
RECURSIVE SearchNextLoop(_, _, _, _, _)
SearchNextLoop(list, query, start, offset, visited) ==
    IF offset >= Len(list) THEN [found |-> {}, visited |-> visited]
    ELSE LET idx == (start + offset) % Len(list)
         IN IF SearchMatches(list[idx + 1], query)
            THEN [found |-> { idx }, visited |-> Append(visited, idx)]
            ELSE SearchNextLoop(list, query, start, offset + 1, Append(visited, idx))

\* a backward search that begins at the selection itself
SearchPrevFoundFromSelection(list, query, sel) ==
    LET len == Len(list)
        hits == { offset \in 0..(len - 1) :
                    SearchMatches(list[((sel + len - offset) % len) + 1], query) }
    IN IF hits = {} THEN {}
       ELSE { (sel + len - (CHOOSE o \in hits : \A x \in hits : o <= x)) % len }

\* the loop of search_prev: the index found, if any
SearchPrevFound(list, query, sel) ==
    LET len == Len(list)
        start == IF sel = 0 THEN len - 1 ELSE sel - 1
        hits == { offset \in 0..(len - 1) :
                    SearchMatches(list[((start + len - offset) % len) + 1], query) }
    IN IF hits = {} THEN {}
       ELSE { (start + len - (CHOOSE o \in hits : \A x \in hits : o <= x)) % len }

\* the loop of search_first: the index found, if any
SearchFirstFound(list, query) ==
    LET hits == { i \in DOMAIN list : SearchMatches(list[i], query) }
    IN IF hits = {} THEN {} ELSE { (CHOOSE i \in hits : \A j \in hits : i <= j) - 1 }

\* the end of the three searches: jump to the match, or flag not-found
SearchJump(found) ==
    IF found = {}
    THEN /\ search_not_found' = TRUE
         /\ UNCHANGED << selected_index, scroll_offset >>
    ELSE LET idx == CHOOSE i \in found : TRUE
         IN /\ selected_index' = idx
            /\ search_not_found' = FALSE
            /\ scroll_offset' = EnsureVisible(idx, scroll_offset, visible_rows)

\* a search that narrows the list to the matches, as the filter does
search_next_filtering ==
    /\ filter_query' = search_query
    /\ filtered_processes' = DeriveView(processes, user_filter, hide_kernel_threads,
                                        search_query, sort_field, sort_ascending,
                                        tree_view, collapsed_pids)
    /\ selected_index' = 0
    /\ scroll_offset' = 0
    /\ search_not_found' = (filtered_processes' = << >>)
    /\ search_visited' = << >>
    /\ h_search_prev' = NoSearchPrev
    /\ h_search' = [list |-> filtered_processes, query |-> ToLower(search_query),
                    from |-> selected_index, not_found |-> search_not_found']
    /\ UNCHANGED << outsideApp, paused, sampledVars, follow_pid, show_threads,
                    search_query, tagged_pids, tabVars, tagCallVars, processes,
                    visible_rows, sortVars, user_filter, hide_kernel_threads,
                    treeVars, menuVars, callVars >>

\* App::search_next
search_next ==
    /\ h_search_prev' = NoSearchPrev
    /\ IF search_query = << >> \/ filtered_processes = << >>
       THEN /\ UNCHANGED << selected_index, scroll_offset, search_not_found >>
            /\ search_visited' = << >>
            /\ h_search' = [list |-> filtered_processes, query |-> ToLower(search_query),
                            from |-> selected_index, not_found |-> FALSE]
       ELSE LET r == SearchNextLoop(filtered_processes, ToLower(search_query),
                                    SearchStart(selected_index), 0, << >>)
            IN /\ SearchJump(r.found)
               /\ search_visited' = r.visited
               /\ h_search' = [list |-> filtered_processes,
                               query |-> ToLower(search_query),
                               from |-> selected_index, not_found |-> r.found = {}]
    /\ UNCHANGED << outsideApp, paused, sampledVars, follow_pid, show_threads,
                    search_query, tagged_pids, tabVars, tagCallVars, processes,
                    filtered_processes, visible_rows, sortVars, filterVars, treeVars,
                    menuVars, callVars >>

\* App::search_prev
search_prev ==
    /\ IF search_query = << >> \/ filtered_processes = << >>
       THEN UNCHANGED << selected_index, scroll_offset, search_not_found >>
       ELSE SearchJump(SearchPrevFound(filtered_processes, ToLower(search_query),
                                       selected_index))
    /\ h_search_prev' = IF /\ search_visited # << >>
                            /\ ~ h_search.not_found
                            /\ selected_index = search_visited[Len(search_visited)]
                            /\ selected_index # h_search.from
                            /\ h_search.list = filtered_processes
                            /\ h_search.query = ToLower(search_query)
                            /\ selected_index' = h_search.from
                         THEN "returned"
                         ELSE "called"
    /\ UNCHANGED << outsideApp, paused, sampledVars, follow_pid, show_threads,
                    search_query, tagged_pids, tabVars, tagCallVars, search_visited,
                    h_search, processes, filtered_processes, visible_rows, sortVars, filterVars,
                    treeVars, menuVars, callVars >>

\* App::search_first under the query given
SearchFirst(squery) ==
    IF squery = << >> \/ filtered_processes = << >>
    THEN /\ search_not_found' = FALSE
         /\ UNCHANGED << selected_index, scroll_offset >>
    ELSE SearchJump(SearchFirstFound(filtered_processes, ToLower(squery)))

\* what the keys of the search bar leave alone
searchFrame ==
    << outsideApp, paused, sampledVars, follow_pid, show_threads, tagged_pids, tabVars,
       tagCallVars, searchCallVars, processes, filtered_processes, visible_rows,
       sortVars, filterVars, treeVars, user_menu_index, callVars >>

\* F3, /
KeySearch ==
    /\ mode = "Normal"
    /\ mode' = "Search"
    /\ search_query' = << >>
    /\ UNCHANGED << searchFrame, selected_index, scroll_offset, search_not_found >>

\* handle_search_mode, Esc
SearchKeyEsc ==
    /\ mode = "Search"
    /\ mode' = "Normal"
    /\ search_query' = << >>
    /\ search_not_found' = FALSE
    /\ UNCHANGED << searchFrame, selected_index, scroll_offset >>

\* handle_search_mode, Enter and F3
SearchKeyEnter ==
    /\ mode = "Search"
    /\ search_next

\* handle_search_mode, Shift+F3
SearchKeyShiftF3 ==
    /\ mode = "Search"
    /\ search_prev

\* handle_search_mode, Backspace
SearchKeyBackspace ==
    /\ mode = "Search"
    /\ search_query' = IF search_query = << >> THEN << >>
                       ELSE SubSeq(search_query, 1, Len(search_query) - 1)
    /\ SearchFirst(search_query')
    /\ UNCHANGED << searchFrame, mode >>

\* handle_search_mode, a character key
SearchKeyChar(c) ==
    /\ mode = "Search"
    /\ Len(search_query) < MaxQueryLen
    /\ search_query' = Append(search_query, c)
    /\ SearchFirst(search_query')
    /\ UNCHANGED << searchFrame, mode >>

\* handle_search_mode, Up
SearchKeyUp ==
    /\ mode = "Search"
    /\ select_prev
    /\ UNCHANGED << outsideApp, restOfMain, processes, filtered_processes, visible_rows,
                    sortVars, filterVars, treeVars, menuVars, callVars >>

\* handle_search_mode, Down
SearchKeyDown ==
    /\ mode = "Search"
    /\ select_next
    /\ UNCHANGED << outsideApp, restOfMain, processes, filtered_processes, visible_rows,
                    sortVars, filterVars, treeVars, menuVars, callVars >>

\* what the pause keys leave alone
pauseFrame ==
    << outsideApp, sampledVars, follow_pid, show_threads, searchVars, tagged_pids, tabVars,
       searchCallVars, tagCallVars, processes, filtered_processes, selectionVars,
       sortVars, filterVars, treeVars, menuVars, callVars >>

\* Z, z
KeyPause ==
    /\ mode = "Normal"
    /\ paused' = ~ paused
    /\ UNCHANGED pauseFrame

\* Ctrl-L: the next tick samples again
KeyCtrlL ==
    /\ mode = "Normal"
    /\ paused' = FALSE
    /\ UNCHANGED pauseFrame

(***************************************************************************)
(* App: tagging (src/app.rs, src/input.rs)                                 *)
(***************************************************************************)
\* children_map.get(&parent) for no parent at all
TagChildrenNone(list, parent) == << >>

\* children_map.get(&parent): the pids of the entries whose ppid is
\* `parent`, in list order
TagChildren(list, parent) ==
    LET idx == IndicesFrom(1, Len(list), { i \in DOMAIN list : list[i].ppid = parent })
    IN [k \in DOMAIN idx |-> list[idx[k]].pid]

\* a visited set that starts empty
TagVisitedEmpty(root_pid) == {}

\* the visited set before the loop
TagVisited(root_pid) == { root_pid }

\* the inner loop: push each child that visited.insert accepts
RECURSIVE TagPush(_, _, _)
TagPush(children, to_tag, visited) ==
    IF children = << >> THEN [to_tag |-> to_tag, visited |-> visited]
    ELSE IF Head(children) \in visited
    THEN TagPush(Tail(children), to_tag, visited)
    ELSE TagPush(Tail(children), Append(to_tag, Head(children)),
                 visited \cup { Head(children) })

\* the while loop from position i (0-based) on: to_tag at the end and the
\* parents taken from it
RECURSIVE TagBfs(_, _, _, _, _)
TagBfs(list, to_tag, visited, i, taken) ==
    IF i >= Len(to_tag) THEN [to_tag |-> to_tag, taken |-> taken]
    ELSE LET parent == to_tag[i + 1]
             r == TagPush(TagChildren(list, parent), to_tag, visited)
         IN TagBfs(list, r.to_tag, r.visited, i + 1, Append(taken, parent))

\* App::tag_with_children
tag_with_children ==
    /\ LET sel == SelectedPid(filtered_processes, selected_index)
       IN IF sel = {}
          THEN /\ UNCHANGED tagged_pids
               /\ tag_trace' = [taken |-> << >>, to_tag |-> << >>]
          ELSE LET root_pid == CHOOSE pid \in sel : TRUE
                   r == TagBfs(filtered_processes, << root_pid >>, TagVisited(root_pid),
                               0, << >>)
               IN /\ tagged_pids' =
                        tagged_pids \cup { r.to_tag[k] : k \in DOMAIN r.to_tag }
                  /\ tag_trace' = r
    /\ h_tag_input' = [list |-> filtered_processes, selected |-> selected_index]
    /\ h_tagged' = [before |-> tagged_pids, after |-> tagged_pids']
    /\ UNCHANGED << outsideApp, paused, sampledVars, follow_pid, show_threads,
                    searchVars, tabVars, searchCallVars, processes, filtered_processes,
                    selectionVars, sortVars, filterVars, treeVars, menuVars, callVars >>

\* App::toggle_tag_selected: the new tagged_pids
ToggleTag(tagged, sel) ==
    IF sel = {} THEN tagged
    ELSE IF sel \subseteq tagged THEN tagged \ sel ELSE tagged \cup sel

\* what the tagging keys leave alone
tagFrame ==
    << outsideApp, paused, sampledVars, follow_pid, show_threads, searchVars, tabLists,
       searchCallVars, tagCallVars, processes, filtered_processes, visible_rows,
       sortVars, filterVars, treeVars, menuVars, callVars >>

\* c
KeyTagChildren ==
    /\ mode = "Normal"
    /\ tag_with_children

\* Space: toggle the tag, then move down
KeyTag ==
    /\ mode = "Normal"
    /\ tagged_pids' = ToggleTag(tagged_pids, SelectedPid(filtered_processes, selected_index))
    /\ select_next
    /\ UNCHANGED tagFrame

\* U
KeyUntagAll ==
    /\ mode = "Normal"
    /\ tagged_pids' = {}
    /\ UNCHANGED << tagFrame, selected_index, scroll_offset, tabSelections >>

(***************************************************************************)
(* App: follow (src/app.rs, src/input.rs)                                  *)
(***************************************************************************)
\* App::toggle_follow: the new follow_pid, `sel` being selected_process()
ToggleFollow(follow, sel) ==
    IF sel = {} THEN follow
    ELSE IF follow = sel THEN {} ELSE sel

\* what the follow key leaves alone
followFrame ==
    << outsideApp, paused, sampledVars, show_threads, searchVars, tagged_pids, tabVars,
       searchCallVars, tagCallVars, processes, filtered_processes, selectionVars,
       sortVars, filterVars, treeVars, menuVars, callVars >>

\* F
KeyFollow ==
    /\ mode = "Normal"
    /\ follow_pid' = ToggleFollow(follow_pid, SelectedPid(filtered_processes, selected_index))
    /\ UNCHANGED followFrame

(***************************************************************************)
(* Tabs (src/input.rs) and the mouse (src/mouse.rs)                        *)
(***************************************************************************)
\* what a change of tab leaves alone
tabFrame ==
    << outsideApp, paused, sampledVars, follow_pid, show_threads, searchVars, tagged_pids,
       connections, net_processes, gpu_processes, tabSelections, searchCallVars,
       tagCallVars, processes, filtered_processes, selectionVars, sortVars, filterVars,
       treeVars, menuVars, callVars >>

\* Tab: Main -> Io -> Net -> Main
KeyTab ==
    /\ mode = "Normal"
    /\ active_tab \in { "Main", "Io", "Net" }
    /\ active_tab' = CASE active_tab = "Main" -> "Io"
                       [] active_tab = "Io" -> "Net"
                       [] active_tab = "Net" -> "Main"
    /\ UNCHANGED tabFrame

\* Shift+Tab: Main -> Net -> Io -> Main
KeyBackTab ==
    /\ mode = "Normal"
    /\ active_tab \in { "Main", "Io", "Net" }
    /\ active_tab' = CASE active_tab = "Main" -> "Net"
                       [] active_tab = "Io" -> "Main"
                       [] active_tab = "Net" -> "Io"
    /\ UNCHANGED tabFrame

\* handle_row_click: the new selected_index for a click on the data row
\* row_offset rows below the column header
RowClick(list, sel, scroll, row_offset) ==
    IF scroll + row_offset < Len(list) THEN scroll + row_offset ELSE sel

\* a left click on a data row
MouseRowClick(row_offset) ==
    /\ mode = "Normal"
    /\ selected_index' = RowClick(filtered_processes, selected_index, scroll_offset,
                                  row_offset)
    /\ UNCHANGED << outsideApp, restOfApp, processes, filtered_processes, scroll_offset,
                    visible_rows, sortVars, filterVars, treeVars, menuVars, callVars >>

\* the wheel turned down, in any mode
MouseScrollDown ==
    /\ select_next
    /\ UNCHANGED << outsideApp, restOfMain, processes, filtered_processes, visible_rows,
                    sortVars, filterVars, treeVars, menuVars, callVars >>

(***************************************************************************)
(* The main loop (src/main.rs): the rows the process area offers           *)
(***************************************************************************)
\* the search/filter bar takes one row from the process area
BarHeight(m, query) == IF m = "Search" \/ m = "Filter" \/ query # << >> THEN 1 ELSE 0

\* app.visible_rows for a terminal `available` rows high under a header of
\* header_h rows; the footer is one row, the table header and the tab bar two
VisibleRows(available, header_h, bar_h) ==
    IF available > header_h + 1 + 2 + bar_h
    THEN available - header_h - 1 - 2 - bar_h
    ELSE 5

\* the top of the loop of run_app, before each draw
Draw(available, header_h) ==
    /\ visible_rows' = VisibleRows(available, header_h, BarHeight(mode, filter_query))
    /\ UNCHANGED << outsideApp, restOfApp, processes, filtered_processes, selected_index,
                    scroll_offset, sortVars, filterVars, treeVars, menuVars, callVars >>

(***************************************************************************)
(* The refresh interval: PstopConfig::load (src/config.rs) and             *)
(* handle_setup_mode (src/input.rs)                                        *)
(***************************************************************************)
\* u64::MAX in decimal
StrU64Max == << "1", "8", "4", "4", "6", "7", "4", "4", "0", "7", "3", "7", "0", "9",
                "5", "5", "1", "6", "1", "5" >>

Str200 == << "2", "0", "0" >>

Str10000 == << "1", "0", "0", "0", "0" >>

IsDigits(s) == \A i \in DOMAIN s : \E k \in DOMAIN DigitChars : DigitChars[k] = s[i]

\* a decimal numeral without its leading zeros (zero is the empty numeral)
RECURSIVE StripZeros(_)
StripZeros(s) == IF s # << >> /\ Head(s) = "0" THEN StripZeros(Tail(s)) ELSE s

\* the order of two numerals without leading zeros
NumeralCmp(a, b) == IF Len(a) # Len(b) THEN IntCmp(Len(a), Len(b)) ELSE StrCmp(a, b)

\* str::parse::<u64>: an optional '+', then one or more decimal digits of a
\* value up to u64::MAX.  The value is kept as its numeral: it need not fit
\* the integers of the model
ParseU64(s) ==
    LET body == IF s # << >> /\ Head(s) = "+" THEN Tail(s) ELSE s
    IN IF body = << >> \/ ~ IsDigits(body) THEN {}
       ELSE IF NumeralCmp(StripZeros(body), StrU64Max) > 0 THEN {}
       ELSE { StripZeros(body) }

\* v.max(200).min(10000) without the lower clamp
ClampIntervalAbove(v) ==
    IF NumeralCmp(v, Str10000) > 0 THEN 10000 ELSE DigitsValue(v)

\* v.max(200).min(10000)
ClampInterval(v) ==
    IF NumeralCmp(v, Str200) < 0 THEN 200
    ELSE IF NumeralCmp(v, Str10000) > 0 THEN 10000
    ELSE DigitsValue(v)

\* PstopConfig::load on the values of the lines with the key
\* update_interval_ms, in file order: cfg.update_interval_ms at the end
RECURSIVE LoadInterval(_, _)
LoadInterval(values, cur) ==
    IF values = << >> THEN cur
    ELSE LET v == ParseU64(Trim(Head(values)))
         IN LoadInterval(Tail(values),
                         IF v = {} THEN cur ELSE ClampInterval(CHOOSE d \in v : TRUE))

(***************************************************************************)
(* PstopConfig: load, save, from_app, apply_to (src/config.rs)             *)
(***************************************************************************)
\* A configuration file is the sequence of its lines that have a '=' and
\* are no comment: each a key, trimmed, and the text after the first '='.

\* str::split(','): the pieces between separators, empty pieces included
RECURSIVE SplitComma(_)
SplitComma(s) ==
    LET hit == FindSub(s, << "," >>)
    IN IF hit = {} THEN << s >>
       ELSE LET i == CHOOSE k \in hit : TRUE
            IN << SubSeq(s, 1, i - 1) >> \o SplitComma(SubSeq(s, i + 1, Len(s)))

\* [String]::join(",")
RECURSIVE JoinComma(_)
JoinComma(parts) ==
    IF parts = << >> THEN << >>
    ELSE IF Len(parts) = 1 THEN parts[1]
    ELSE parts[1] \o << "," >> \o JoinComma(Tail(parts))

\* str::parse::<usize> followed by a test `idx < n`: the index, if the text
\* is a numeral below n (usize has the 64 bits of u64 on the targets)
IndexBelow(text, n) ==
    { DigitsValue(v) : v \in { w \in ParseU64(text) : NumeralCmp(w, Decimal(n)) < 0 } }

\* iter().position: the 0-based index of the first occurrence
Position(all, x) == (CHOOSE i \in DOMAIN all : all[i] = x /\ \A j \in 1..(i - 1) : all[j] # x) - 1

\* the arm "visible_columns" of PstopConfig::load
LoadColumns(value, cur) ==
    LET pieces == SplitComma(value)
        indices == SelectSeq(pieces, LAMBDA t : ParseU64(Trim(t)) # {})
        within == SelectSeq(indices, LAMBDA t : IndexBelow(Trim(t), Len(SortFieldsAll)) # {})
    IN IF indices = << >> THEN cur
       ELSE [i \in DOMAIN within |->
               SortFieldsAll[(CHOOSE k \in IndexBelow(Trim(within[i]), Len(SortFieldsAll)) : TRUE) + 1]]

\* one pass of the loop of PstopConfig::load over a line
LoadLine(cfg, line) ==
    LET value == Trim(line.value)
    IN CASE line.key \in BoolKeySet ->
               [cfg EXCEPT !.flags[line.key] = (value = << "1" >>)]
         [] line.key = "update_interval_ms" ->
               [cfg EXCEPT !.update_interval_ms = LoadInterval(<< value >>, @)]
         [] line.key = "color_scheme" ->
               IF ParseU64(value) = {} THEN cfg
               ELSE [cfg EXCEPT !.color_scheme_id =
                        IF IndexBelow(value, Len(ColorSchemes)) = {} THEN "Default"
                        ELSE from_index(CHOOSE k \in IndexBelow(value, Len(ColorSchemes)) : TRUE)]
         [] line.key = "sort_field" ->
               IF IndexBelow(value, Len(SortFieldsAll)) = {} THEN cfg
               ELSE [cfg EXCEPT !.sort_field =
                        SortFieldsAll[(CHOOSE k \in IndexBelow(value, Len(SortFieldsAll)) : TRUE) + 1]]
         [] line.key = "sort_ascending" ->
               [cfg EXCEPT !.sort_ascending = (value = << "1" >>)]
         [] line.key = "visible_columns" ->
               [cfg EXCEPT !.visible_columns = LoadColumns(value, @)]
         [] OTHER -> cfg

RECURSIVE LoadLines(_, _)
LoadLines(file, cfg) ==
    IF file = << >> THEN cfg ELSE LoadLines(Tail(file), LoadLine(cfg, Head(file)))

\* PstopConfig::load of a file that can be read; one that cannot be read
\* loads as the file without lines does
load(file) == LoadLines(file, DefaultConfig)

\* the closure b of PstopConfig::save
BoolText(v) == IF v THEN << "1" >> ELSE << "0" >>

\* PstopConfig::save: the lines written, the three of the heading left out
save(cfg) ==
    [i \in DOMAIN BoolKeys |-> [key |-> BoolKeys[i], value |-> BoolText(cfg.flags[BoolKeys[i]])]]
    \o << [key |-> "update_interval_ms", value |-> Decimal(cfg.update_interval_ms)],
          [key |-> "color_scheme", value |-> Decimal(Position(ColorSchemes, cfg.color_scheme_id))],
          [key |-> "sort_field", value |-> Decimal(Position(SortFieldsAll, cfg.sort_field))],
          [key |-> "sort_ascending", value |-> BoolText(cfg.sort_ascending)],
          [key |-> "visible_columns",
           value |-> JoinComma([i \in DOMAIN cfg.visible_columns |->
                                   Decimal(Position(SortFieldsAll, cfg.visible_columns[i]))])] >>

\* PstopConfig::from_app.  The vector of the visible columns is taken in
\* the order of ProcessSortField::all (a HashSet hands them over in an order
\* of its own, which no reader of the vector depends on)
from_app ==
    [flags |-> [k \in BoolKeySet |->
                   CASE k = "tree_view" -> tree_view
                     [] k = "hide_kernel_threads" -> hide_kernel_threads
                     [] k = "enable_mouse" -> enable_mouse
                     [] OTHER -> k \in display_on],
     update_interval_ms |-> update_interval_ms,
     color_scheme_id |-> color_scheme_id,
     sort_field |-> sort_field,
     sort_ascending |-> sort_ascending,
     visible_columns |-> SelectSeq(SortFieldsAll, LAMBDA f : f \in visible_columns)]

\* PstopConfig::apply_to
apply_to(cfg) ==
    /\ tree_view' = cfg.flags["tree_view"]
    /\ hide_kernel_threads' = cfg.flags["hide_kernel_threads"]
    /\ enable_mouse' = cfg.flags["enable_mouse"]
    /\ display_on' = { k \in DisplayKeys : cfg.flags[k] }
    /\ update_interval_ms' = cfg.update_interval_ms
    /\ color_scheme_id' = cfg.color_scheme_id
    /\ sort_field' = cfg.sort_field
    /\ sort_ascending' = cfg.sort_ascending
    /\ visible_columns' = { cfg.visible_columns[i] : i \in DOMAIN cfg.visible_columns }

\* the fields of App that apply_to writes
settingsVars ==
    << tree_view, hide_kernel_threads, enable_mouse, display_on, update_interval_ms,
       color_scheme_id, sort_field, sort_ascending, visible_columns >>

\* where the cursor of the setup menu is
menuPos == << setup_menu_index, setup_category, setup_panel >>

\* what neither the load nor the setup menu writes
settingsFrame ==
    << driven, clock, collectorVars, trackerVars, passVars, pollVars, gpuVars, gpuCallVars,
       refresh_skipped, callVars, searchCallVars, tagCallVars, paused, sampledVars,
       processes, filtered_processes, selectionVars, filter_query, user_filter,
       collapsed_pids, follow_pid, show_threads, searchVars, tagged_pids, tabVars,
       user_menu_index, should_quit, config_saves, h_after_quit, h_killed >>

\* the lines of a file that has only update_interval_ms lines
IntervalLines(values) ==
    [i \in DOMAIN values |-> [key |-> "update_interval_ms", value |-> values[i]]]

\* what the setup keys leave alone
setupFrame ==
    << driven, clock, collectorVars, trackerVars, passVars, pollVars, gpuVars, gpuCallVars,
       refresh_skipped, mainVars, restOfApp, processes, filtered_processes, selectionVars, sortVars,
       filterVars, treeVars, user_menu_index, callVars >>

\* run_app: PstopConfig::load and apply_to, once, on the App just built
ConfigApply(file) ==
    /\ ~ config_loaded
    /\ config_loaded' = TRUE
    /\ apply_to(load(file))
    /\ UNCHANGED << settingsFrame, mode, run_at, setup_toggles, menuPos >>

\* the same, of a file that has only update_interval_ms lines
ConfigLoad(values) == ConfigApply(IntervalLines(values))

\* F2, S
KeySetup ==
    /\ mode = "Normal"
    /\ setup_menu_index' = 0
    /\ mode' = "Setup"
    /\ UNCHANGED << setupFrame, update_interval_ms, setup_category, setup_panel,
                    config_loaded >>

\* handle_setup_mode, Esc: PstopConfig::from_app(app).save() writes the file,
\* which is no part of the state, and the menu is closed
SetupKeyEsc ==
    /\ mode = "Setup"
    /\ mode' = "Normal"
    /\ UNCHANGED << settingsFrame, settingsVars, run_at, setup_toggles, menuPos,
                    config_loaded >>

\* handle_setup_mode, Left
SetupKeyLeft ==
    /\ mode = "Setup"
    /\ IF setup_panel > 0
       THEN setup_panel' = setup_panel - 1 /\ setup_menu_index' = 0
       ELSE UNCHANGED << setup_panel, setup_menu_index >>
    /\ UNCHANGED << setupFrame, mode, update_interval_ms, setup_category, config_loaded >>

\* handle_setup_mode, Right
SetupKeyRight ==
    /\ mode = "Setup"
    /\ IF setup_panel < 1
       THEN setup_panel' = setup_panel + 1 /\ setup_menu_index' = 0
       ELSE UNCHANGED << setup_panel, setup_menu_index >>
    /\ UNCHANGED << setupFrame, mode, update_interval_ms, setup_category, config_loaded >>

\* the last row of the content panel of a category: 4 meters, 14 display
\* options and the interval row, the colour schemes, the columns
MaxContentIdx(category) ==
    CASE category = 0 -> 3
      [] category = 1 -> 14
      [] category = 2 -> 6
      [] category = 3 -> Len(SortFieldsAll) - 1
      [] OTHER -> 0

\* handle_setup_mode, Up
SetupKeyUp ==
    /\ mode = "Setup"
    /\ IF setup_panel = 0
       THEN IF setup_category > 0
            THEN setup_category' = setup_category - 1 /\ setup_menu_index' = 0
            ELSE UNCHANGED << setup_category, setup_menu_index >>
       ELSE /\ setup_menu_index' = IF setup_menu_index > 0 THEN setup_menu_index - 1
                                   ELSE setup_menu_index
            /\ UNCHANGED setup_category
    /\ UNCHANGED << setupFrame, mode, update_interval_ms, setup_panel, config_loaded >>

\* handle_setup_mode, Down: there are four categories
SetupKeyDown ==
    /\ mode = "Setup"
    /\ IF setup_panel = 0
       THEN IF setup_category + 1 < 4
            THEN setup_category' = setup_category + 1 /\ setup_menu_index' = 0
            ELSE UNCHANGED << setup_category, setup_menu_index >>
       ELSE /\ setup_menu_index' = IF setup_menu_index < MaxContentIdx(setup_category)
                                   THEN setup_menu_index + 1 ELSE setup_menu_index
            /\ UNCHANGED setup_category
    /\ UNCHANGED << setupFrame, mode, update_interval_ms, setup_panel, config_loaded >>

\* the display options in the order of their rows in the setup menu
ToggleOptions ==
    << "show_tree_by_default", "shadow_other_users", "hide_kernel_threads",
       "highlight_base_name", "highlight_megabytes", "highlight_threads", "header_margin",
       "detailed_cpu_time", "cpu_count_from_zero", "update_process_names",
       "show_thread_names", "show_full_path", "show_merged_command", "enable_mouse" >>

\* the most toggles made in the setup menu
MaxToggles == 2

\* the row of a display option is toggled
ToggleOption(k) ==
    /\ hide_kernel_threads' = IF k = "hide_kernel_threads" THEN ~ hide_kernel_threads
                              ELSE hide_kernel_threads
    /\ enable_mouse' = IF k = "enable_mouse" THEN ~ enable_mouse ELSE enable_mouse
    /\ display_on' = IF k \notin DisplayKeys THEN display_on
                     ELSE IF k \in display_on THEN display_on \ { k }
                     ELSE display_on \cup { k }

\* the row of a column is toggled: Command stays as it is
ToggleColumn(columns, idx) ==
    IF idx >= Len(SortFieldsAll) THEN columns
    ELSE LET field == SortFieldsAll[idx + 1]
         IN IF field = "Command" THEN columns
            ELSE IF field \in columns THEN columns \ { field }
            ELSE columns \cup { field }

\* handle_setup_mode, Space and Enter: into the content panel from the
\* category panel, and there the row under the cursor is toggled or chosen
SetupKeySpace ==
    /\ mode = "Setup"
    /\ IF setup_panel = 0
       THEN /\ setup_panel' = 1
            /\ setup_menu_index' = 0
            /\ UNCHANGED << hide_kernel_threads, enable_mouse, display_on, color_scheme_id,
                            visible_columns, setup_toggles >>
       ELSE /\ setup_toggles < MaxToggles
            /\ setup_toggles' = setup_toggles + 1
            /\ UNCHANGED << setup_panel, setup_menu_index >>
            /\ CASE setup_category = 1 /\ setup_menu_index < Len(ToggleOptions) ->
                       /\ ToggleOption(ToggleOptions[setup_menu_index + 1])
                       /\ UNCHANGED << color_scheme_id, visible_columns >>
                 [] setup_category = 2 ->
                       /\ color_scheme_id' = from_index(setup_menu_index)
                       /\ UNCHANGED << hide_kernel_threads, enable_mouse, display_on,
                                       visible_columns >>
                 [] setup_category = 3 ->
                       /\ visible_columns' = ToggleColumn(visible_columns, setup_menu_index)
                       /\ UNCHANGED << hide_kernel_threads, enable_mouse, display_on,
                                       color_scheme_id >>
                 [] OTHER ->
                       UNCHANGED << hide_kernel_threads, enable_mouse, display_on,
                                    color_scheme_id, visible_columns >>
    /\ UNCHANGED << settingsFrame, mode, run_at, tree_view, update_interval_ms,
                    sortVars, setup_category, config_loaded >>

\* handle_setup_mode, a: in the content panel of the columns, every column
\* when some is hidden, and Command alone when all are shown
SetupKeyToggleAll ==
    /\ mode = "Setup"
    /\ IF setup_category = 3 /\ setup_panel = 1
       THEN /\ setup_toggles < MaxToggles
            /\ setup_toggles' = setup_toggles + 1
            /\ visible_columns' = IF Cardinality(visible_columns) = Len(SortFieldsAll)
                                  THEN { "Command" } ELSE SortFields
            /\ setup_menu_index' = 0
       ELSE UNCHANGED << visible_columns, setup_menu_index, setup_toggles >>
    /\ UNCHANGED << settingsFrame, mode, run_at, tree_view, hide_kernel_threads,
                    enable_mouse, display_on, update_interval_ms, color_scheme_id, sortVars,
                    setup_category, setup_panel, config_loaded >>

\* (update_interval_ms + 100).min(10000)
IntervalUp(ms) == IF ms + 100 < 10000 THEN ms + 100 ELSE 10000

\* update_interval_ms.saturating_sub(100).max(200)
IntervalDown(ms) == IF SaturatingSub(ms, 100) > 200 THEN SaturatingSub(ms, 100) ELSE 200

\* handle_setup_mode, + and =
SetupKeyPlus ==
    /\ mode = "Setup"
    /\ update_interval_ms' = IF setup_category = 1 THEN IntervalUp(update_interval_ms)
                             ELSE update_interval_ms
    /\ UNCHANGED << setupFrame, mode, setup_menu_index, setup_category, setup_panel,
                    config_loaded >>

\* handle_setup_mode, -
SetupKeyMinus ==
    /\ mode = "Setup"
    /\ update_interval_ms' = IF setup_category = 1 THEN IntervalDown(update_interval_ms)
                             ELSE update_interval_ms
    /\ UNCHANGED << setupFrame, mode, setup_menu_index, setup_category, setup_panel,
                    config_loaded >>

(***************************************************************************)
(* Process lists for the view specifications                               *)
(***************************************************************************)
StrOtherName == << "O", "t", "h", "e", "r" >>

ProfWorker ==
    [name |-> StrSvcWorker, command |-> StrSvcWorker, status |-> "Sleep",
     virt |-> 500, resident |-> 100, cpu_usage |-> FracZero, run_time |-> 30,
     times |-> { 300 },
     win |-> [priority |-> 8, nice |-> 0, thread_count |-> 1,
              private_working_set |-> 100],
     user |-> StrBob, threads |-> << >>]

ProfOther ==
    [name |-> StrOtherName, command |-> StrOtherName, status |-> "Run",
     virt |-> 100, resident |-> 300, cpu_usage |-> Frac(5, 2), run_time |-> 10,
     times |-> { 125 },
     win |-> [priority |-> 13, nice |-> 0 - 5, thread_count |-> 2,
              private_working_set |-> 100],
     user |-> StrSYSTEM, threads |-> << >>]

Profiles == { ProfSvc, ProfWorker, ProfOther }

\* the orders in which the processes of a set can be enumerated
Arrangements(S) ==
    { s \in [1..Cardinality(S) -> S] : \A i, j \in DOMAIN s : i # j => s[i] # s[j] }

\* the view specifications take one sample pass
MaxViewPasses == 1

\* keys typed into the filter prompt
FilterChars == { "S", "o", "|" }

\* pids 1..n, n <= MaxProcs, running different profiles in any order, parent 0
FilterSnapshots ==
    UNION { { [k \in DOMAIN order |-> OsProc(k, 0, order[k], << 1000, 200 >>)]
              : order \in Arrangements(S) }
            : S \in { T \in SUBSET Profiles : Cardinality(T) <= MaxProcs } }

\* three processes whose keys differ under some sort fields and tie under
\* others, enumerated in two orders with two sets of I/O counters, and the
\* list without one of them
SortSnapshots ==
    { << OsProc(1, 0, ProfSvc, << 1000, 200 >>),
         OsProc(2, 1, ProfWorker, << 200, 1500 >>),
         OsProc(3, 0, ProfOther, << 200, 200 >>) >>,
      << OsProc(3, 0, ProfOther, << 1500, 1500 >>),
         OsProc(1, 0, ProfSvc, << 1500, 1000 >>),
         OsProc(2, 1, ProfWorker, << 1000, 200 >>) >>,
      << OsProc(2, 1, ProfWorker, << 1000, 200 >>),
         OsProc(1, 0, ProfSvc, << 1500, 1000 >>) >> }

\* any pids of 1..MaxProcs in any order, the parent of each 0, any of the
\* pids (its own included) or a pid that is not enumerated
TreeSnapshots ==
    UNION { UNION { { [k \in DOMAIN order |->
                         OsProc(order[k], ppid[order[k]], ProfSvc, << 1000, 200 >>)]
                      : ppid \in [S -> 0..(MaxProcs + 1)] }
                    : order \in Arrangements(S) }
            : S \in SUBSET (1..MaxProcs) }

(***************************************************************************)
(* Specifications of the process view                                      *)
(***************************************************************************)
InitView == Constructed /\ GpuReady /\ driven = "collector"

RefreshFilter ==
    /\ tick < MaxViewPasses
    /\ \E procs \in FilterSnapshots : Refresh(procs, Host, 0, 0, NoConnections, GpuIdle, clock)

KeyChar == \E c \in FilterChars : FilterKeyChar(c)

NextFilter ==
    \/ RefreshFilter
    \/ apply_filter
    \/ KeyFilter
    \/ KeyChar
    \/ FilterKeyBackspace
    \/ FilterKeyEnter
    \/ FilterKeyEsc
    \/ KeyUser
    \/ UserKeyUp
    \/ UserKeyDown
    \/ UserKeyEnter
    \/ UserKeyEsc
    \/ KeyHideKernel

SpecFilter == InitView /\ [][NextFilter]_vars

RefreshSort == \E procs \in SortSnapshots : Refresh(procs, Host, 0, 0, NoConnections, GpuIdle, clock + 1)

KeySort == \E field \in { "Cpu", "Mem", "Time", "Pid" } : KeySortShortcut(field)

KeyCycle == \E forward \in BOOLEAN : cycle_sort_field(forward)

NextSort ==
    \/ RefreshSort
    \/ sort_processes
    \/ KeySort
    \/ KeyCycle
    \/ KeyInvert

SpecSort == InitView /\ [][NextSort]_vars

RefreshTree ==
    /\ tick < MaxViewPasses
    /\ \E procs \in TreeSnapshots : Refresh(procs, Host, 0, 0, NoConnections, GpuIdle, clock)

NextTree ==
    \/ RefreshTree
    \/ build_tree_view
    \/ KeyTree
    \/ KeyCollapse
    \/ KeyExpand
    \/ KeyExpandAll
    \/ KeyUp
    \/ KeyDown

SpecTree == InitView /\ [][NextTree]_vars

(***************************************************************************)
(* Claims about the rate trackers                                          *)
(***************************************************************************)
\* the entry of the process list for an enumerated pid
ProcessOf(pid) == processes[CHOOSE i \in DOMAIN processes : processes[i].pid = pid]

\* pids sampled in the last pass that were in the rate cache when it began
CachedPids == current_pids \cap DOMAIN h_prev_io

\* connections read in the last poll that were in the byte cache when it began
CachedKeys == (DOMAIN estats_read.read) \cap DOMAIN h_prev_bytes

Max0(n) == IF n > 0 THEN n ELSE 0

\* C1: every reported rate and every per-connection byte delta is >= 0: the
\* I/O rates of every process, the system RX/TX rates, the byte deltas of
\* every connection and the per-process download/upload rates, for any
\* counter values and any elapsed time, zero included.
C1_RatesNonNegative ==
    /\ \A i \in DOMAIN processes :
          FracNonNeg(processes[i].io_read_rate) /\ FracNonNeg(processes[i].io_write_rate)
    /\ FracNonNeg(network_info.rx_bytes_per_sec)
    /\ FracNonNeg(network_info.tx_bytes_per_sec)
    /\ \A k \in DOMAIN estats_read.delta :
          estats_read.delta[k][1] >= 0 /\ estats_read.delta[k][2] >= 0
    /\ \A i \in DOMAIN net_out :
          FracNonNeg(net_out[i].recv_bytes_per_sec) /\ FracNonNeg(net_out[i].send_bytes_per_sec)

\* a pass that found a cached pid with a smaller read counter and a larger
\* write counter, some time after the cached sample
C1_Witness ==
    \E pid \in CachedPids :
        /\ io_counters[pid][1] < h_prev_io[pid].read
        /\ io_counters[pid][2] > h_prev_io[pid].write
        /\ prev_io_counters[pid].time > h_prev_io[pid].time
        /\ ProcessOf(pid).io_write_rate.num > 0

\* C2: a counter smaller than the cached one (a counter reset) gives rate 0
\* for that sample (byte delta 0 for a connection), and the smaller value is
\* the baseline of the next sample.
C2_ResetReportsZero ==
    /\ \A pid \in CachedPids :
          /\ io_counters[pid][1] < h_prev_io[pid].read =>
                /\ ProcessOf(pid).io_read_rate = FracZero
                /\ prev_io_counters[pid].read = io_counters[pid][1]
          /\ io_counters[pid][2] < h_prev_io[pid].write =>
                /\ ProcessOf(pid).io_write_rate = FracZero
                /\ prev_io_counters[pid].write = io_counters[pid][2]
    /\ ( h_prev_net.time # {} /\ network_info.total_rx < h_prev_net.rx ) =>
          /\ network_info.rx_bytes_per_sec = FracZero
          /\ prev_net_rx = network_info.total_rx
    /\ ( h_prev_net.time # {} /\ network_info.total_tx < h_prev_net.tx ) =>
          /\ network_info.tx_bytes_per_sec = FracZero
          /\ prev_net_tx = network_info.total_tx
    /\ \A k \in CachedKeys :
          /\ estats_read.read[k][1] < h_prev_bytes[k][1] =>
                estats_read.delta[k][1] = 0 /\ prev_bytes[k][1] = estats_read.read[k][1]
          /\ estats_read.read[k][2] < h_prev_bytes[k][2] =>
                estats_read.delta[k][2] = 0 /\ prev_bytes[k][2] = estats_read.read[k][2]

\* the scenario's reset: 1500 cached, 200 read one second later
C2_Witness ==
    \E pid \in CachedPids :
        /\ h_prev_io[pid].read = 1500
        /\ io_counters[pid][1] = 200
        /\ prev_io_counters[pid].time = h_prev_io[pid].time + TicksPerSecond
        /\ ProcessOf(pid).io_read_rate = FracZero
        /\ prev_io_counters[pid].read = 200

\* C3: for a cached pid sampled at t2 > t1, each of the read and the write
\* rate is max(0, v2 - v1) / (t2 - t1) seconds, each from its own counter and
\* both against the one cached timestamp; 1000 at t = 0 and 1500 one second
\* later is 500 bytes/s.
C3_RateIsDeltaOverElapsed ==
    \A pid \in CachedPids :
        LET elapsed == prev_io_counters[pid].time - h_prev_io[pid].time
            rd == ProcessOf(pid).io_read_rate
            wr == ProcessOf(pid).io_write_rate
        IN elapsed > 0 =>
              /\ rd.den > 0 /\ wr.den > 0
              /\ rd.num * elapsed =
                    rd.den * Max0(io_counters[pid][1] - h_prev_io[pid].read) * TicksPerSecond
              /\ wr.num * elapsed =
                    wr.den * Max0(io_counters[pid][2] - h_prev_io[pid].write) * TicksPerSecond
              /\ ( /\ h_prev_io[pid].read = 1000
                   /\ io_counters[pid][1] = 1500
                   /\ elapsed = TicksPerSecond ) => rd = [num |-> 500, den |-> 1]

\* the scenario: 1000 at t = 0, 1500 at t = 1 s, while the write counter of
\* the same pid went from 200 to 1000
C3_Witness ==
    \E pid \in CachedPids :
        /\ h_prev_io[pid] = [read |-> 1000, write |-> 200, time |-> 0]
        /\ io_counters[pid] = << 1500, 1000 >>
        /\ prev_io_counters[pid].time = TicksPerSecond
        /\ ProcessOf(pid).io_read_rate = [num |-> 500, den |-> 1]
        /\ ProcessOf(pid).io_write_rate = [num |-> 800, den |-> 1]

\* C4: the first sample of a key that is not in its rate cache reports rate 0
\* (byte delta 0) and records the value read as the baseline, for the
\* per-process I/O tracker, the system network tracker and the
\* per-connection byte tracker.
C4_FirstSampleIsZero ==
    /\ \A pid \in current_pids \ DOMAIN h_prev_io :
          /\ ProcessOf(pid).io_read_rate = FracZero
          /\ ProcessOf(pid).io_write_rate = FracZero
          /\ prev_io_counters[pid].read = io_counters[pid][1]
          /\ prev_io_counters[pid].write = io_counters[pid][2]
    /\ ( tick > 0 /\ h_prev_net.time = {} ) =>
          /\ network_info.rx_bytes_per_sec = FracZero
          /\ network_info.tx_bytes_per_sec = FracZero
          /\ prev_net_rx = network_info.total_rx
          /\ prev_net_tx = network_info.total_tx
    /\ \A k \in (DOMAIN estats_read.read) \ DOMAIN h_prev_bytes :
          /\ estats_read.delta[k] = << 0, 0 >>
          /\ prev_bytes[k] = estats_read.read[k]

\* C5: after a completed pass every rate cache holds only keys of that pass:
\* prev_io_counters only enumerated pids, prev_bytes and enabled_set only
\* enumerated connections; so no cache is larger than the live set, and a pid
\* or connection that was absent for a pass and is back is a first
\* observation, with rate 0.
C5_CacheWithinLiveSet ==
    /\ DOMAIN prev_io_counters \subseteq current_pids
    /\ Cardinality(DOMAIN prev_io_counters) <= Cardinality(current_pids)
    /\ DOMAIN prev_bytes \subseteq current_keys
    /\ enabled_set \subseteq current_keys
    /\ Cardinality(DOMAIN prev_bytes) <= Cardinality(current_keys)
    /\ \A pid \in reappeared_pids :
          /\ pid \notin DOMAIN h_prev_io
          /\ ProcessOf(pid).io_read_rate = FracZero
          /\ ProcessOf(pid).io_write_rate = FracZero
    /\ \A k \in reappeared_keys :
          /\ k \notin DOMAIN h_prev_bytes
          /\ k \in DOMAIN estats_read.read => estats_read.delta[k] = << 0, 0 >>

(***************************************************************************)
(* Claims about the process view                                           *)
(***************************************************************************)
\* s is t with some elements left out and the order of the others kept
RECURSIVE IsSubsequence(_, _)
IsSubsequence(s, t) ==
    IF s = << >> THEN TRUE
    ELSE IF t = << >> THEN FALSE
    ELSE IF Head(s) = Head(t) THEN IsSubsequence(Tail(s), Tail(t))
    ELSE IsSubsequence(s, Tail(t))

Reverse(s) == [i \in DOMAIN s |-> s[Len(s) + 1 - i]]

\* no two processes of the list compare Equal under the field
UniqueKeys(list, field) ==
    \A i, j \in DOMAIN list : i # j => FieldOrdering(field, list[i], list[j]) # 0

\* p has a parent in the list: parent pid 0 stands for no parent
HasParentIn(list, p) == p.ppid # 0 /\ p.ppid \in PidsOf(list)

\* the pids of the list reached from pid by at most n parent links
RECURSIVE AncestorPids(_, _, _)
AncestorPids(list, pid, n) ==
    IF n = 0 THEN {}
    ELSE LET parents == { list[i].ppid : i \in { k \in DOMAIN list :
                             list[k].pid = pid /\ HasParentIn(list, list[k]) } }
         IN parents \cup UNION { AncestorPids(list, q, n - 1) : q \in parents }

\* no process of the list is its own ancestor
Acyclic(list) ==
    \A i \in DOMAIN list : list[i].pid \notin AncestorPids(list, list[i].pid, Len(list))

\* the positions of the children of pid in the list
ChildPositions(list, pid) ==
    { j \in DOMAIN list : list[j].ppid = pid /\ list[j].ppid # 0 }

\* a process without the annotations of the tree
WithoutTreeFields(p) == [p EXCEPT !.depth = 0, !.is_last_child = FALSE]

\* C6: apply_filter is idempotent, and its result is an order-preserving
\* sub-sequence of the process list: under any filter string, user filter
\* and hide-kernel flag, filtering the filtered list again with the same
\* criteria gives the same elements in the same order.
C6_FilterIdempotentSubsequence ==
    last_call = "apply_filter" =>
        /\ FilterList(filtered_processes, user_filter, hide_kernel_threads, filter_query)
              = filtered_processes
        /\ IsSubsequence(filtered_processes, processes)

\* apply_filter under a filter string, a user filter or the hide-kernel flag
\* that kept two processes and dropped the one enumerated first
C6_Witness ==
    /\ last_call = "apply_filter"
    /\ filter_query # << >>
    /\ hide_kernel_threads \/ user_filter # {}
    /\ Len(processes) = 3
    /\ filtered_processes = Tail(processes)

\* C7: sort_processes twice with the same field and direction gives the
\* order of sorting once; when no two processes have equal keys, re-sorting
\* after one toggle of the direction gives the exact reverse order, and
\* re-sorting after each of two toggles gives the original order back.
C7_SortIdempotentToggleReverses ==
    \A n \in DOMAIN sort_log :
        /\ ( n > 1 /\ sort_log[n].ascending = sort_log[n - 1].ascending ) =>
              sort_log[n].out = sort_log[n - 1].out
        /\ ( /\ n > 1
             /\ sort_log[n].ascending # sort_log[n - 1].ascending
             /\ UniqueKeys(sort_log[n].out, sort_field) ) =>
              sort_log[n].out = Reverse(sort_log[n - 1].out)
        /\ ( /\ n > 2
             /\ sort_log[n].ascending # sort_log[n - 1].ascending
             /\ sort_log[n - 1].ascending # sort_log[n - 2].ascending
             /\ UniqueKeys(sort_log[n].out, sort_field) ) =>
              sort_log[n].out = sort_log[n - 2].out

\* three processes with different total I/O rates, sorted, toggled and
\* re-sorted, toggled and re-sorted
C7_Witness ==
    /\ sort_field = "IoRate"
    /\ Len(sort_log) = 3
    /\ sort_log[1].ascending # sort_log[2].ascending
    /\ sort_log[2].ascending # sort_log[3].ascending
    /\ Len(sort_log[3].out) = 3
    /\ UniqueKeys(sort_log[3].out, sort_field)
    /\ sort_log[2].out = Reverse(sort_log[1].out)
    /\ sort_log[3].out = sort_log[1].out
    /\ filtered_processes = sort_log[3].out

\* C8: when no process of the list is its own ancestor, build_tree_view
\* gives a preorder: a process with a parent in the list comes after its
\* parent and after all its ancestors in the list, inside its parent's
\* subtree, one level deeper than its parent; the others have depth 0.
C8_TreePreorderDepth ==
    ( last_call = "build_tree_view" /\ Acyclic(h_filtered) ) =>
        \A i \in DOMAIN filtered_processes :
            LET p == filtered_processes[i]
            IN IF HasParentIn(h_filtered, p)
               THEN /\ \A a \in AncestorPids(h_filtered, p.pid, Len(h_filtered)) :
                          \E j \in 1..(i - 1) : filtered_processes[j].pid = a
                    /\ \E j \in 1..(i - 1) :
                          /\ filtered_processes[j].pid = p.ppid
                          /\ p.depth = filtered_processes[j].depth + 1
                          /\ \A k \in (j + 1)..(i - 1) :
                                filtered_processes[k].depth >= p.depth
               ELSE p.depth = 0

\* a grandchild enumerated before its parent and its grandparent
C8_Witness ==
    /\ last_call = "build_tree_view"
    /\ Acyclic(h_filtered)
    /\ Len(filtered_processes) = 3
    /\ filtered_processes[3].depth = 2
    /\ h_filtered[1].pid = filtered_processes[3].pid
    /\ h_filtered[3].pid = filtered_processes[1].pid

\* C9: when no process of the list is its own ancestor, after
\* build_tree_view every process with a child in the display list has
\* exactly one child with is_last_child set, and it is the last of its
\* children in display order.
C9_OneLastChild ==
    ( last_call = "build_tree_view" /\ Acyclic(h_filtered) ) =>
        \A i \in DOMAIN filtered_processes :
            LET kids == ChildPositions(filtered_processes, filtered_processes[i].pid)
                last == { j \in kids : filtered_processes[j].is_last_child }
            IN kids # {} =>
                  /\ Cardinality(last) = 1
                  /\ \A j \in last : \A k \in kids : k <= j

\* a parent shown with two children
C9_Witness ==
    /\ last_call = "build_tree_view"
    /\ Acyclic(h_filtered)
    /\ \E i \in DOMAIN filtered_processes :
          LET kids == ChildPositions(filtered_processes, filtered_processes[i].pid)
          IN /\ Cardinality(kids) = 2
             /\ \E j, k \in kids :
                   /\ j < k
                   /\ ~ filtered_processes[j].is_last_child
                   /\ filtered_processes[k].is_last_child

\* C10: with no pid collapsed, build_tree_view gives a permutation of the
\* list it was handed, whatever the parent pids are: every process of the
\* list is in the result exactly once.
C10_TreeKeepsEveryProcess ==
    ( last_call = "build_tree_view" /\ collapsed_pids = {} ) =>
        /\ Len(filtered_processes) = Len(h_filtered)
        /\ \A i \in DOMAIN h_filtered :
              Cardinality({ j \in DOMAIN filtered_processes :
                              WithoutTreeFields(filtered_processes[j])
                                 = WithoutTreeFields(h_filtered[i]) }) = 1

(***************************************************************************)
(* SpecSearch: the search bar over a sampled list                          *)
(***************************************************************************)
\* the characters typed into the search bar
SearchChars == { "S", "o" }

RefreshSearch ==
    /\ tick < MaxViewPasses
    /\ \E procs \in FilterSnapshots :
          Refresh(procs, Host, 0, 0, NoConnections, GpuIdle, clock)

SearchKeyTyped == \E c \in SearchChars : SearchKeyChar(c)

NextSearch ==
    \/ RefreshSearch
    \/ KeySearch
    \/ SearchKeyTyped
    \/ SearchKeyBackspace
    \/ SearchKeyEnter
    \/ SearchKeyShiftF3
    \/ SearchKeyEsc
    \/ SearchKeyUp
    \/ SearchKeyDown
    \/ KeyUp
    \/ KeyDown

SpecSearch == InitView /\ [][NextSearch]_vars

(***************************************************************************)
(* Claims about search                                                     *)
(***************************************************************************)
\* C11: search_next, started from any selected index, examines the elements
\* of the filtered list in cyclic order beginning just after the selection,
\* each at most once and at most len of them; it goes on only past elements
\* that do not match, and reports not-found only after examining all of them.
C11_SearchWrapsOnce ==
    LET list == h_search.list
        n == Len(list)
        v == search_visited
    IN /\ Len(v) <= n
       /\ \A i \in 1..Len(v) : v[i] = (h_search.from + i) % n
       /\ \A i, j \in 1..Len(v) : i # j => v[i] # v[j]
       /\ \A i \in 1..(Len(v) - 1) : ~ SearchMatches(list[v[i] + 1], h_search.query)
       /\ h_search.not_found =>
             /\ Len(v) = n
             /\ \A i \in 1..n : ~ SearchMatches(list[i], h_search.query)
       /\ (v # << >> /\ ~ h_search.not_found) =>
             SearchMatches(list[v[Len(v)] + 1], h_search.query)

\* a search from the middle of a full list that wrapped around, examined
\* every element and found nothing
C11_Witness ==
    /\ h_search.not_found
    /\ Len(h_search.list) = MaxProcs
    /\ h_search.from = 1
    /\ search_visited = << 2, 0, 1 >>
    /\ search_not_found

(***************************************************************************)
(* SpecScenario: the filter prompt and the tree over svc, svc-worker, other *)
(***************************************************************************)
ProfOtherLower == [ProfOther EXCEPT !.name = StrOther, !.command = StrOther]

\* pid 1 svc, pid 2 svc-worker, pid 3 other, under the parents given
ScenarioProcs(ppids) ==
    << OsProc(1, ppids[1], ProfSvc, << 1000, 200 >>),
       OsProc(2, ppids[2], ProfWorker, << 1000, 200 >>),
       OsProc(3, ppids[3], ProfOtherLower, << 1000, 200 >>) >>

\* the parents of the scenario: pid 2 is a child of pid 1
ScenarioParents == << 0, 1, 0 >>

\* the three processes under every assignment of parents, 0 for none
ScenarioSnapshots == { ScenarioProcs(f) : f \in [1..3 -> 0..3] }

\* the characters typed into the filter prompt
ScenarioChars == { "s", "v", "c" }

RefreshScenario ==
    /\ tick < MaxViewPasses
    /\ \E procs \in ScenarioSnapshots :
          Refresh(procs, Host, 0, 0, NoConnections, GpuIdle, clock)

ScenarioKeyChar == \E c \in ScenarioChars : FilterKeyChar(c)

NextScenario ==
    \/ RefreshScenario
    \/ KeyFilter
    \/ ScenarioKeyChar
    \/ FilterKeyBackspace
    \/ FilterKeyEnter
    \/ FilterKeyEsc
    \/ KeyTree
    \/ KeyUp
    \/ KeyDown

SpecScenario == InitView /\ [][NextScenario]_vars

\* the (pid, ppid) pairs of a list, in order
PidPairs(list) == [i \in DOMAIN list |-> << list[i].pid, list[i].ppid >>]

\* C12: when the list on display is the tree built over the filtered list, a
\* process is at depth 0 exactly when its parent pid is 0 or is no pid of the
\* filtered list; and for svc (1), svc-worker (2, child of 1), other (3) under
\* the filter "svc" the tree is pid 1 at depth 0, then its only child pid 2
\* at depth 1, marked as last child, with pid 3 left out.
C12_RootIffParentAbsent ==
    (last_call = "build_tree_view"
     /\ PidsOf(h_filtered)
          = PidsOf(FilterList(processes, user_filter, hide_kernel_threads, filter_query)))
    => /\ \A i \in DOMAIN filtered_processes :
             LET p == filtered_processes[i]
             IN p.depth = 0 <=> (p.ppid = 0 \/ p.ppid \notin PidsOf(h_filtered))
       /\ (PidPairs(processes) \in Arrangements({ << 1, 0 >>, << 2, 1 >>, << 3, 0 >> })
           /\ filter_query = StrSvc /\ collapsed_pids = {})
          => /\ PidPairs(h_filtered) \in Arrangements({ << 1, 0 >>, << 2, 1 >> })
             /\ Len(filtered_processes) = 2
             /\ filtered_processes[1].pid = 1
             /\ filtered_processes[1].depth = 0
             /\ filtered_processes[2].pid = 2
             /\ filtered_processes[2].depth = 1
             /\ filtered_processes[2].is_last_child

\* the scenario: the three processes sampled, "svc" typed, tree view on
C12_Witness ==
    /\ last_call = "build_tree_view"
    /\ tree_view
    /\ filter_query = StrSvc
    /\ collapsed_pids = {}
    /\ Len(processes) = 3
    /\ \A i \in 1..3 : processes[i].ppid = ScenarioParents[processes[i].pid]
    /\ Len(filtered_processes) = 2

(***************************************************************************)
(* Claims about tagging                                                    *)
(***************************************************************************)
RefreshTag ==
    /\ tick < MaxViewPasses
    /\ \E procs \in TreeSnapshots : Refresh(procs, Host, 0, 0, NoConnections, GpuIdle, clock)

NextTag ==
    \/ RefreshTag
    \/ KeyUp
    \/ KeyDown
    \/ KeyTagChildren
    \/ KeyTag
    \/ KeyUntagAll

SpecTag == InitView /\ [][NextTag]_vars

\* the pids reachable from the pids of S through the parent -> children
\* relation of the list, S included
RECURSIVE ReachableFrom(_, _)
ReachableFrom(list, S) ==
    LET next == S \cup { list[i].pid : i \in { j \in DOMAIN list : list[j].ppid \in S } }
    IN IF next = S THEN S ELSE ReachableFrom(list, next)

\* the elements of a sequence
Range(s) == { s[k] : k \in DOMAIN s }

\* a sequence without repetition
Distinct(s) == \A i, j \in DOMAIN s : s[i] = s[j] => i = j

\* C13: tag_with_children adds to the tagged set exactly the selected pid and
\* every pid reachable from it through the parent -> children relation of
\* the filtered list; the pids tagged before stay tagged; without a selected
\* process the tagged set stays as it was
C13_TagsSubtree ==
    LET sel == SelectedPid(h_tag_input.list, h_tag_input.selected)
    IN h_tagged.after =
           h_tagged.before \cup ( IF sel = {} THEN {} ELSE ReachableFrom(h_tag_input.list, sel) )

\* the scenario of the specification: pid 1 with child 2 and a process 3
\* apart, pid 3 tagged before; tagging pid 1 with its children gives {1, 2, 3}
C13_Witness ==
    /\ Len(h_tag_input.list) = 3
    /\ h_tag_input.selected = 0
    /\ PidPairs(h_tag_input.list) = << << 1, 0 >>, << 2, 1 >>, << 3, 0 >> >>
    /\ h_tagged.before = { 3 }
    /\ h_tagged.after = { 1, 2, 3 }
    /\ tagged_pids = { 1, 2, 3 }

\* C14: tag_with_children ends on every list, one whose parent pointers form
\* a cycle or name the process itself included: no pid enters to_tag twice,
\* none is taken from it twice, and the loop runs at most len + 1 times
C14_TagVisitsOnce ==
    /\ Distinct(tag_trace.to_tag)
    /\ Distinct(tag_trace.taken)
    /\ tag_trace.taken = tag_trace.to_tag
    /\ Len(tag_trace.taken) <= Len(h_tag_input.list) + 1

\* a list whose three processes form a parent cycle, the traversal begun
\* inside it
C14_Witness ==
    /\ PidPairs(h_tag_input.list) = << << 1, 3 >>, << 2, 1 >>, << 3, 2 >> >>
    /\ h_tag_input.selected = 0
    /\ tag_trace.taken = << 1, 2, 3 >>

(***************************************************************************)
(* Claims about the pause flag                                             *)
(***************************************************************************)
\* two processes, one of them gone in the last enumeration, with counters
\* that rise and fall
PauseSnapshots ==
    { << OsProc(1, 0, ProfSvc, << 1000, 200 >>), OsProc(2, 0, ProfSvc, << 1000, 200 >>) >>,
      << OsProc(1, 0, ProfSvc, << 1500, 1000 >>), OsProc(2, 0, ProfSvc, << 200, 1500 >>) >>,
      << OsProc(1, 0, ProfSvc, << 1500, 1000 >>) >> }

RefreshPause ==
    \E procs \in PauseSnapshots, nt \in NetSamples, dt \in 1..MaxDt :
        Refresh(procs, Host, nt[1], nt[2], NoConnections, GpuIdle, clock + dt)

NextPause ==
    \/ RefreshPause
    \/ KeyPause
    \/ KeyCtrlL
    \/ KeyUp
    \/ KeyDown

SpecPause == InitView /\ [][NextPause]_vars

\* what a sample pass writes: the lists, the aggregates, the tick counters
\* and the caches
pauseKept ==
    << processes, filtered_processes, network_info, available_users, tick,
       collectorVars, selectionVars, clock >>

\* C15: a sample pass begun while the pause flag is set changes nothing (the
\* process list, the filtered list, the network aggregates, the tick counter,
\* the attribute-cache tick counter and the rate caches are as before), and
\* a paused program still takes its keys: the cursor keys and the pause key
\* stay enabled
C15_PausedRefreshChangesNothing ==
    /\ [][ refresh_skipped' # refresh_skipped => paused /\ UNCHANGED pauseKept ]_vars
    /\ [][ paused => tick' = tick /\ win_data_cache_ticks' = win_data_cache_ticks ]_vars
    /\ []( paused /\ mode = "Normal" => ENABLED KeyDown /\ ENABLED KeyUp /\ ENABLED KeyPause )

\* a paused program after samples were taken, a pass was skipped and the
\* cursor moved
C15_Witness ==
    /\ paused
    /\ refresh_skipped
    /\ tick = 2
    /\ selected_index = 1
    /\ Len(processes) >= 2
    /\ prev_io_counters # << >>

(***************************************************************************)
(* Claims about the intents that change the view                           *)
(***************************************************************************)
\* the character typed into the filter prompt
IntentChars == { "s" }

\* svc (1), its child svc-worker (2) and other (3)
IntentSnapshots ==
    { << OsProc(1, 0, ProfSvc, << 1000, 200 >>),
         OsProc(2, 1, ProfWorker, << 200, 1500 >>),
         OsProc(3, 0, ProfOther, << 200, 200 >>) >> }

RefreshIntent ==
    /\ tick < MaxViewPasses
    /\ \E procs \in IntentSnapshots : Refresh(procs, Host, 0, 0, NoConnections, GpuIdle, clock)

IntentKeyChar == \E c \in IntentChars : FilterKeyChar(c)

NextIntent ==
    \/ RefreshIntent
    \/ KeySort
    \/ KeyInvert
    \/ KeyHideKernel
    \/ KeyTree
    \/ KeyCollapse
    \/ KeyExpand
    \/ KeyExpandAll
    \/ KeyFilter
    \/ IntentKeyChar
    \/ FilterKeyBackspace
    \/ FilterKeyEnter
    \/ FilterKeyEsc
    \/ KeyUser
    \/ UserKeyDown
    \/ UserKeyEnter
    \/ KeyUp
    \/ KeyDown

SpecIntent == InitView /\ [][NextIntent]_vars

\* C16: whatever intent was applied last, the list drawn next is
\* tree-build(sort(filter(process list))) under the view state now in force
C16_ViewFollowsIntent ==
    filtered_processes =
        DeriveView(processes, user_filter, hide_kernel_threads, filter_query, sort_field,
                   sort_ascending, tree_view, collapsed_pids)

(***************************************************************************)
(* Claims about the privilege probe of the connection tracker              *)
(***************************************************************************)
\* C17: once an enable attempt has failed while admin_ok was None, the
\* tracker makes no further enable attempt and no byte read, for the
\* remaining connections of that pass and in every later pass
C17_NoProbeAfterFailure ==
    /\ late_enables = {}
    /\ late_reads = {}

(***************************************************************************)
(* SpecGpu: the GPU sampler on its own                                     *)
(***************************************************************************)
\* instance names of the GPU Engine and GPU Process Memory counters
EngineName(pid, engtype) ==
    StrPid \o Decimal(pid) \o << "_" >> \o StrEngtype \o engtype

MemoryName(pid) == StrPid \o Decimal(pid)

CounterItem(cstatus, name, value) == [cstatus |-> cstatus, name |-> name, value |-> value]

\* what the two calls of PdhGetFormattedCounterArrayW answer for the engine
\* counter: nothing; a failed reading call; two engines of pid 1 and an item
\* of pid 2 whose status is not 0; an instance name without a pid; two idle
\* engines of pid 2 and two equally busy engines of pid 1
EngineAnswers ==
    { NoItems,
      [more_data |-> TRUE, second_ok |-> FALSE,
       items |-> << CounterItem(0, EngineName(1, << "3", "D" >>), FracOfInt(40)) >>],
      [more_data |-> TRUE, second_ok |-> TRUE,
       items |-> << CounterItem(0, EngineName(1, << "3", "D" >>), FracOfInt(40)),
                    CounterItem(0, EngineName(1, << "C", "o", "p", "y" >>), FracOfInt(70)),
                    CounterItem(1, EngineName(2, << "3", "D" >>), FracOfInt(90)) >>],
      [more_data |-> TRUE, second_ok |-> TRUE,
       items |-> << CounterItem(0, MemoryName(3), FracOfInt(10)) >>],
      [more_data |-> TRUE, second_ok |-> TRUE,
       items |-> << CounterItem(0, EngineName(2, << "3", "D" >>), FracZero),
                    CounterItem(0, EngineName(1, << "3", "D" >>), FracOfInt(40)),
                    CounterItem(0, EngineName(2, << "C", "o", "p", "y" >>), FracZero),
                    CounterItem(0, EngineName(1, << "C", "o", "p", "y" >>), FracOfInt(40)) >>] }

\* and for a memory counter: nothing; two instances of pid 1 and a negative
\* value of pid 3
MemoryAnswers ==
    { NoItems,
      [more_data |-> TRUE, second_ok |-> TRUE,
       items |-> << CounterItem(0, MemoryName(1), 100),
                    CounterItem(0, MemoryName(1) \o << "_", "x" >>, 50),
                    CounterItem(0, MemoryName(3), 0 - 5) >>] }

GpuAnswers ==
    { [collect_ok |-> ok, eng |-> e, ded |-> d, shr |-> s] :
        ok \in BOOLEAN, e \in EngineAnswers, d \in MemoryAnswers, s \in MemoryAnswers }

InitGpu == Constructed /\ driven = "gpu"

GpuCollectorCollect == \E gpu_ans \in GpuAnswers : GpuPoll(gpu_ans)

NextGpu == GpuCollectorCollect

SpecGpu == InitGpu /\ [][NextGpu]_vars

\* the items a counter handed over, if it was added and both calls succeeded
ItemsRead(counter, ans) ==
    IF counter # 0 /\ ans.more_data /\ ans.second_ok THEN ans.items ELSE << >>

\* the positions of the valid items of `pid`
ItemsOf(items, pid, engine) ==
    { i \in DOMAIN items :
        /\ items[i].cstatus = 0
        /\ IF engine
           THEN \E pe \in parse_engine_instance(items[i].name) : pe[1] = pid
           ELSE pid \in parse_memory_instance(items[i].name) }

\* the bytes of the items at the positions I, a negative value counting 0
RECURSIVE SumBytes(_, _)
SumBytes(items, I) ==
    IF I = {} THEN 0
    ELSE LET i == CHOOSE x \in I : TRUE
         IN ( IF items[i].value > 0 THEN items[i].value ELSE 0 ) + SumBytes(items, I \ { i })

\* the pids the GPU specification names
GpuPids == 1..NumGpuPids

\* what the last call should have aggregated for `pid`, at most one entry
GpuExpected(pid) ==
    LET eng == ItemsRead(engine_counter, h_gpu.ans.eng)
        ded == ItemsRead(dedicated_counter, h_gpu.ans.ded)
        shr == ItemsRead(shared_counter, h_gpu.ans.shr)
        E == ItemsOf(eng, pid, TRUE)
    IN IF E = {} /\ ItemsOf(ded, pid, FALSE) = {} /\ ItemsOf(shr, pid, FALSE) = {} THEN {}
       ELSE { [pid |-> pid, usage |-> u, dedicated_mem |-> SumBytes(ded, ItemsOf(ded, pid, FALSE)),
               shared_mem |-> SumBytes(shr, ItemsOf(shr, pid, FALSE))] :
              u \in { v \in { FracZero } \cup { eng[i].value : i \in E } :
                        \A i \in E : FracCmp(eng[i].value, v) <= 0 } }

\* C18: on a sampler whose counter subsystem opened, the first collect() whose
\* PdhCollectQueryData succeeds returns nothing, every later one that succeeds
\* returns the data aggregated per process, and a collect() whose
\* PdhCollectQueryData fails returns nothing and is not the warm-up sample
C18_FirstSampleDiscarded ==
    initialized =>
        /\ ( gpu_status = "ok" /\ ~ h_gpu.sampled ) => ( gpu_out = {} /\ has_sampled_once )
        /\ ( gpu_status = "ok" /\ h_gpu.sampled ) =>
              { [pid |-> g.pid, usage |-> g.gpu_usage, dedicated_mem |-> g.dedicated_mem,
                 shared_mem |-> g.shared_mem] : g \in gpu_out }
                 = UNION { GpuExpected(pid) : pid \in GpuPids }
        /\ gpu_status = "failed" =>
              ( gpu_out = {} /\ has_sampled_once = h_gpu.sampled /\ ~ h_gpu.ans.collect_ok )

\* a collect after the warm-up that returns pid 1 by its busiest engine, with
\* its memory summed, and pid 3 with its negative reading counted as 0
C18_Witness ==
    /\ initialized /\ engine_counter # 0 /\ dedicated_counter # 0
    /\ gpu_status = "ok"
    /\ h_gpu.sampled
    /\ \E g \in gpu_out : g.pid = 1 /\ g.gpu_usage = FracOfInt(70) /\ g.dedicated_mem = 150
    /\ \E g \in gpu_out : g.pid = 3 /\ g.dedicated_mem = 0
    /\ Cardinality(gpu_out) = 2

\* C19: a sampler whose counter subsystem did not open at construction stays
\* disabled: every collect() returns nothing and makes no counter call, and
\* the sampler is never initialized afterwards
C19_DisabledForGood ==
    /\ []( ~ initialized =>
             /\ gpu_out = {} /\ gpu_calls = 0 /\ gpu_status = "none"
             /\ gpu_query = 0 /\ ~ has_sampled_once )
    /\ [][ ~ initialized => ~ initialized' /\ gpu_query' = gpu_query ]_vars

\* a disabled sampler asked to collect on a host whose counters would answer
C19_Witness ==
    /\ ~ initialized
    /\ h_gpu.ans.collect_ok
    /\ h_gpu.ans.eng.items # << >>
    /\ h_gpu.ans.eng.second_ok

(***************************************************************************)
(* Claims about the selection                                              *)
(***************************************************************************)
RefreshSelect ==
    /\ tick < MaxViewPasses
    /\ \E procs \in IntentSnapshots : Refresh(procs, Host, 0, 0, NoConnections, GpuIdle, clock)

\* a click on any data row of the table
MouseClick == \E row_offset \in 0..MaxProcs : MouseRowClick(row_offset)

\* the character typed into the search bar
SelectKeyChar == SearchKeyChar("o")

NextSelect ==
    \/ RefreshSelect
    \/ KeyUp
    \/ KeyDown
    \/ MouseClick
    \/ MouseScrollDown
    \/ KeyTab
    \/ KeyBackTab
    \/ KeyTree
    \/ KeyCollapse
    \/ KeyExpand
    \/ KeyFilter
    \/ FilterKeyBackspace
    \/ FilterKeyEnter
    \/ KeyUser
    \/ UserKeyDown
    \/ UserKeyEnter
    \/ KeySearch
    \/ SelectKeyChar
    \/ SearchKeyEnter
    \/ SearchKeyEsc

SpecSelect == InitView /\ [][NextSelect]_vars

\* an index into the list, or 0 for the empty list
ValidSelection(list, sel) == IF list = << >> THEN sel = 0 ELSE sel < Len(list)

\* C20: whatever passes and intents came before, the selection of the main
\* tab is an index of filtered_processes (0 when the list is empty), and so
\* are the selections of the Net and GPU tabs for their lists
C20_SelectionValid ==
    /\ ValidSelection(filtered_processes, selected_index)
    /\ ValidSelection(connections, net_selected_index)
    /\ ValidSelection(gpu_processes, gpu_selected_index)

(***************************************************************************)
(* SpecScroll: the cursor and the viewport over lists that grow and shrink *)
(***************************************************************************)
\* sample passes of the scroll specification
MaxScrollPasses == 2

\* the terminal heights of the scroll specification
TerminalHeights == { 7 }

\* the header of compact mode: one CPU bar and one memory bar
CompactHeaderHeight == 2

\* the character typed into the filter prompt
ScrollChars == { "o" }

RefreshScroll ==
    /\ tick < MaxScrollPasses
    /\ \E procs \in SortSnapshots :
          Refresh(procs, Host, 0, 0, NoConnections, GpuIdle, clock)

DrawScroll == \E available \in TerminalHeights : Draw(available, CompactHeaderHeight)

ScrollKeyChar == \E c \in ScrollChars : FilterKeyChar(c)

NextScroll ==
    \/ RefreshScroll
    \/ DrawScroll
    \/ KeyUp
    \/ KeyDown
    \/ KeyFilter
    \/ ScrollKeyChar
    \/ FilterKeyBackspace
    \/ FilterKeyEnter

SpecScroll == InitView /\ [][NextScroll]_vars

(***************************************************************************)
(* SpecFollow: a followed process over lists that change their order       *)
(***************************************************************************)
NextFollow ==
    \/ RefreshScroll
    \/ KeyUp
    \/ KeyDown
    \/ KeyFollow
    \/ KeySort
    \/ KeyInvert

SpecFollow == InitView /\ [][NextFollow]_vars

(***************************************************************************)
(* Claims about the viewport and follow                                    *)
(***************************************************************************)
\* the scroll offset is a row of the list and the selected row is one of the
\* visible_rows rows drawn from it
InViewport(list, sel, scroll, rows) ==
    list # << >> =>
        /\ scroll < Len(list)
        /\ scroll <= sel
        /\ sel < scroll + rows

\* C21: with a non-empty filtered list the scroll offset is below its length
\* and the selected row lies in the viewport, scroll_offset <= selected_index
\* < scroll_offset + visible_rows; a sample pass or a filter edit that finds
\* this so and leaves visible_rows alone leaves it so
C21_SelectionInViewport ==
    [][ ( /\ InViewport(filtered_processes, selected_index, scroll_offset, visible_rows)
          /\ visible_rows' = visible_rows )
        => InViewport(filtered_processes', selected_index', scroll_offset', visible_rows')
      ]_vars

\* C22: a sample pass that is not skipped and finds the followed pid in the
\* new display list leaves the cursor on the followed process, whatever
\* order the list now has; one that does not find it (or follows nothing)
\* only clamps the selection index to the new list
C22_FollowKeepsSelection ==
    [][ tick' # tick =>
          IF \E f \in follow_pid : f \in PidsOf(filtered_processes')
          THEN /\ SelectedPid(filtered_processes', selected_index') = follow_pid
               /\ follow_pid' = follow_pid
          ELSE << selected_index', scroll_offset' >>
                  = ClampSelection(filtered_processes', selected_index, scroll_offset)
      ]_vars

\* the last pass found the followed process on another row than the cursor
\* was on and moved the cursor there
C22_Witness ==
    /\ h_cursor.follow_pid # {}
    /\ h_cursor.found
    /\ h_cursor.after # h_cursor.selected_index

(***************************************************************************)
(* SpecSetup: the refresh interval, loaded and stepped                     *)
(***************************************************************************)
\* values of update_interval_ms lines: below the range, inside it, above
\* it, u64::MAX, one past u64::MAX, signed, padded, not a number, empty
ConfigValues ==
    { << "1", "5", "0" >>,
      << "0" >>,
      << " ", "9", "7", "5", "0", " " >>,
      << "+", "2", "5", "0" >>,
      << "9", "9", "9", "9", "9" >>,
      StrU64Max,
      << "1", "8", "4", "4", "6", "7", "4", "4", "0", "7", "3", "7", "0", "9",
         "5", "5", "1", "6", "1", "6" >>,
      << "-", "5" >>,
      << "f", "a", "s", "t" >>,
      << >> }

\* the most update_interval_ms lines of a configuration file
MaxConfigLines == 2

ConfigFiles == UNION { [1..n -> ConfigValues] : n \in 0..MaxConfigLines }

ConfigLoaded == \E values \in ConfigFiles : ConfigLoad(values)

\* run_app loads the configuration before its loop takes the first key
NextSetup ==
    \/ ConfigLoaded
    \/ config_loaded /\ KeySetup
    \/ config_loaded /\ SetupKeyEsc
    \/ config_loaded /\ SetupKeyLeft
    \/ config_loaded /\ SetupKeyRight
    \/ config_loaded /\ SetupKeyUp
    \/ config_loaded /\ SetupKeyDown
    \/ config_loaded /\ SetupKeyPlus
    \/ config_loaded /\ SetupKeyMinus

SpecSetup == InitView /\ [][NextSetup]_vars

(***************************************************************************)
(* Claims about the refresh interval                                       *)
(***************************************************************************)
\* C23: the refresh interval is 1500 milliseconds at the start and within
\* [200, 10000] in every state; whatever update_interval_ms lines a
\* configuration file has, the loaded interval is within the range, and it
\* is 1500 when no line parses; so the load, and the + and - steps of the
\* setup menu, never leave the range
C23_IntervalInRange ==
    /\ update_interval_ms = 1500
    /\ \A values \in ConfigFiles :
          /\ LoadInterval(values, 1500) \in 200..10000
          /\ (\A i \in DOMAIN values : ParseU64(Trim(values[i])) = {})
                => LoadInterval(values, 1500) = 1500
    /\ [](update_interval_ms \in 200..10000)

\* a loaded interval that is no multiple of 100, stepped up to the last value
\* below the upper end
C23_Witness ==
    /\ config_loaded
    /\ mode = "Setup"
    /\ setup_category = 1
    /\ update_interval_ms = 9950

(***************************************************************************)
(* Claims about the order of the re-derivation                             *)
(***************************************************************************)
\* a step that re-derives the display list: a sample pass, an edit of the
\* filter string, a choice in the user menu
Rederived ==
    \/ tick' # tick
    \/ filter_query' # filter_query
    \/ user_filter' # user_filter

\* the display list after a step, had the step run the methods of `calls`
\* in that order under the view state it leaves
ListAfter(calls) ==
    RunMethods(calls, filtered_processes, processes', user_filter', hide_kernel_threads',
               filter_query', sort_field', sort_ascending', collapsed_pids')

\* with build_tree_view at the end when the view is a tree
WithTree(calls, tree) == IF tree THEN Append(calls, "build_tree_view") ELSE calls

\* C24: every re-derivation of the display list (a tick, a filter edit, a
\* user-filter edit) leaves the list that apply_filter, then sort_processes,
\* then (in tree view) build_tree_view produce in this order: filter, then
\* sort, then tree-build
C24_FilterThenSortThenTree ==
    [][ Rederived =>
          filtered_processes' =
              ListAfter(WithTree(<< "apply_filter", "sort_processes" >>, tree_view'))
      ]_vars

\* C24 as stated: every re-derivation leaves the list that sort_processes,
\* then apply_filter, then (in tree view) build_tree_view produce: sort,
\* then filter, then tree-build
C24_SortThenFilterThenTree ==
    [][ Rederived =>
          filtered_processes' =
              ListAfter(WithTree(<< "sort_processes", "apply_filter" >>, tree_view'))
      ]_vars

\* in the filter prompt, in tree view: the tree was built from the sorted
\* matches, and sorting had changed their order
C24_Witness ==
    /\ mode = "Filter"
    /\ filter_query # << >>
    /\ tree_view
    /\ last_call = "build_tree_view"
    /\ h_filtered = SortList(FilterList(processes, user_filter, hide_kernel_threads,
                                        filter_query), sort_field, sort_ascending)
    /\ h_filtered # FilterList(processes, user_filter, hide_kernel_threads, filter_query)
    /\ filtered_processes = BuildTreeView(h_filtered, collapsed_pids)

(***************************************************************************)
(* The per-process queries (src/system/winapi.rs)                          *)
(***************************************************************************)
\* map_priority_class
MapPriorityClass(pclass) ==
    CASE pclass = "IDLE" -> << 4, 19 >>
      [] pclass = "BELOW_NORMAL" -> << 6, 10 >>
      [] pclass = "NORMAL" -> << 8, 0 >>
      [] pclass = "ABOVE_NORMAL" -> << 10, 0 - 5 >>
      [] pclass = "HIGH" -> << 13, 0 - 10 >>
      [] pclass = "REALTIME" -> << 24, 0 - 20 >>
      [] OTHER -> << 8, 0 >>

\* get_priority, of a process for which the OS answers `os`: whether
\* OpenProcess grants PROCESS_QUERY_INFORMATION, and its priority class
GetPriority(pid, os) ==
    IF pid = 0 \/ pid = 4 THEN << 0, 0 >>
    ELSE IF ~ os.open_ok THEN << 8, 0 >>
    ELSE MapPriorityClass(os.pclass)

\* get_private_working_set: OpenProcess with PROCESS_QUERY_LIMITED_INFORMATION,
\* then GetProcessMemoryInfo
GetPrivateWorkingSet(pid, os) ==
    IF pid = 0 \/ pid = 4 THEN 0
    ELSE IF ~ os.open_limited_ok THEN 0
    ELSE IF os.mem_ok THEN os.private_usage
    ELSE 0

\* get_process_user: the account of the process token, if every step succeeds
GetProcessUser(pid, os) ==
    IF pid = 0 \/ pid = 4 THEN { StrSYSTEM }
    ELSE IF ~ os.open_limited_ok THEN {}
    ELSE os.account

\* get_process_cpu_times, user and kernel time added as batch_process_times does
GetProcessCpuTimes(pid, os) ==
    IF pid = 0 \/ pid = 4 THEN {}
    ELSE IF ~ os.open_limited_ok THEN {}
    ELSE os.cpu_times

\* the entry collect_process_data inserts for a pid, thread_counts being the
\* result of count_all_threads
WinProcessData(pid, thread_counts, os) ==
    LET pri == GetPriority(pid, os)
    IN [priority |-> pri[1],
        nice |-> pri[2],
        thread_count |-> IF pid \in DOMAIN thread_counts THEN thread_counts[pid] ELSE 1,
        private_working_set |-> GetPrivateWorkingSet(pid, os)]

\* the entry batch_process_users inserts
BatchUser(pid, os) ==
    LET name == GetProcessUser(pid, os)
    IN IF name = {} THEN StrSYSTEM ELSE CHOOSE u \in name : TRUE

\* a process with what the queries return for it
Queried(pid, prof, thread_counts, os) ==
    [prof EXCEPT !.win = WinProcessData(pid, thread_counts, os),
                 !.user = BatchUser(pid, os),
                 !.times = GetProcessCpuTimes(pid, os)]

(***************************************************************************)
(* SpecCache: the attribute cache over several passes                      *)
(***************************************************************************)
\* the passes of the cache specification: 0 .. MaxCachePasses - 1
MaxCachePasses == 5

\* pid 4 is System; pid 5 and pid 6 are ordinary processes
CachePids == { 4, 5, 6 }

\* what the thread snapshot counts for each
ThreadCounts == [pid \in CachePids |-> IF pid = 4 THEN 90 ELSE pid - 2]

\* the answers for a process that can be opened, and for a protected one
OsOpen ==
    [open_ok |-> TRUE, open_limited_ok |-> TRUE, pclass |-> "HIGH", mem_ok |-> TRUE,
     private_usage |-> 150, account |-> { StrAnn }, cpu_times |-> { 615 }]

OsProtected ==
    [open_ok |-> FALSE, open_limited_ok |-> FALSE, pclass |-> "HIGH", mem_ok |-> FALSE,
     private_usage |-> 150, account |-> { StrAnn }, cpu_times |-> { 615 }]

\* the enumeration of the pids S, in pid order, pid 5 answering os5, the
\* thread snapshot taken or failed, every process with the counters io
CacheSnapshot(S, os5, snap, io) ==
    LET idx == IndicesFrom(4, 6, S)
    IN [k \in DOMAIN idx |->
          OsProc(idx[k], 0,
                 Queried(idx[k], ProfSvc, IF snap THEN ThreadCounts ELSE << >>,
                         IF idx[k] = 5 THEN os5 ELSE OsOpen),
                 io)]

\* processes come and go, pid 5 is protected or not, the thread snapshot
\* fails once, the counters rise and fall
CacheSnapshots ==
    { CacheSnapshot({ 4, 5 }, OsOpen, TRUE, << 1000, 200 >>),
      CacheSnapshot({ 4, 5 }, OsProtected, TRUE, << 1500, 1000 >>),
      CacheSnapshot({ 5, 6 }, OsOpen, TRUE, << 1500, 1000 >>),
      CacheSnapshot({ 5, 6 }, OsOpen, FALSE, << 1000, 200 >>),
      CacheSnapshot({ 4, 5, 6 }, OsProtected, TRUE, << 1000, 200 >>),
      CacheSnapshot({ 5 }, OsOpen, TRUE, << 1500, 1000 >>) }

\* Collector::refresh for the passes before max_ticks
RefreshWithin(max_ticks, procs, host, total_rx, total_tx, conn_counts, gpu_ans, now) ==
    /\ driven = "collector"
    /\ IF paused
       THEN /\ refresh_skipped' = ~ refresh_skipped
            /\ UNCHANGED observedVars
       ELSE /\ SampleWithin(max_ticks, procs, host, total_rx, total_tx, conn_counts,
                            gpu_ans, now)
            /\ UNCHANGED refresh_skipped
    /\ UNCHANGED mainVars

RefreshCache ==
    \E procs \in CacheSnapshots, dt \in 0..1 :
        RefreshWithin(MaxCachePasses, procs, Host, 1000, 200, NoConnections, GpuIdle,
                      clock + dt)

NextCache ==
    \/ RefreshCache
    \/ KeyPause

SpecCache == InitView /\ [][NextCache]_vars

(***************************************************************************)
(* Claims about the attribute cache                                        *)
(***************************************************************************)
\* a list entry shows the cached attributes of its pid, or the defaults
ServedFrom(p, wcache, ucache) ==
    /\ IF p.pid \in DOMAIN wcache
       THEN /\ p.priority = wcache[p.pid].priority
            /\ p.nice = wcache[p.pid].nice
            /\ p.threads = wcache[p.pid].thread_count
            /\ p.shared_mem = SaturatingSub(p.resident_mem,
                                            wcache[p.pid].private_working_set)
       ELSE /\ p.priority = 8
            /\ p.nice = 0
            /\ p.threads = 1
            /\ p.shared_mem = p.resident_mem
    /\ p.user = IF p.pid \in DOMAIN ucache THEN ucache[p.pid] ELSE StrSYSTEM

AttributeQueries == { "collect_process_data", "batch_process_users" }

\* C25: the pass number n counts the sample passes that were not paused
\* (tick, and with it win_data_cache_ticks). A pass with n % 3 = 0 calls
\* collect_process_data and batch_process_users and replaces both caches by
\* what they return, an entry for every enumerated pid; a pass with any other
\* n calls neither and leaves both caches as they were; in both cases the
\* list entries show the cache contents. A paused pass changes neither the
\* count nor the caches.
C25_CacheEveryThirdPass ==
    /\ [][ tick' # tick =>
             /\ win_data_cache_ticks = tick
             /\ win_data_cache_ticks' = tick + 1
             /\ IF tick % 3 = 0
                THEN /\ AttributeQueries \subseteq h_batch'.calls
                     /\ win_data_cache' = h_batch'.win
                     /\ user_name_cache' = h_batch'.users
                     /\ DOMAIN win_data_cache' = current_pids'
                     /\ DOMAIN user_name_cache' = current_pids'
                ELSE /\ AttributeQueries \cap h_batch'.calls = {}
                     /\ win_data_cache' = win_data_cache
                     /\ user_name_cache' = user_name_cache
             /\ \A i \in DOMAIN processes' :
                   ServedFrom(processes'[i], win_data_cache', user_name_cache') ]_vars
    /\ [][ refresh_skipped' # refresh_skipped =>
             /\ tick' = tick
             /\ UNCHANGED << win_data_cache, user_name_cache, win_data_cache_ticks >> ]_vars

\* the fifth pass (n = 4), after a skipped one, serves the cache of the
\* fourth although other processes are running now
C25_Witness ==
    /\ tick = 5
    /\ refresh_skipped
    /\ AttributeQueries \cap h_batch.calls = {}
    /\ DOMAIN win_data_cache = { 4, 5 }
    /\ current_pids = { 5, 6 }

\* C26: every enumerated process is in the list of the pass, and a process
\* that is not in the attribute cache, or that is pid 0 or pid 4, is listed
\* with priority 8, nice 0 and thread count 1
C26_DefaultsWhenUnavailable ==
    tick > 0 =>
        /\ PidsOf(processes) = current_pids
        /\ \A i \in DOMAIN processes :
              ( processes[i].pid \notin DOMAIN win_data_cache
                \/ processes[i].pid \in { 0, 4 } )
              => /\ processes[i].priority = 8
                 /\ processes[i].nice = 0
                 /\ processes[i].threads = 1

\* C27: every sample pass calls batch_io_counters, and after it the rate
\* cache holds, for every pid of the pass, the counters read in that pass
\* with the instant of the pass, whether or not the pass refreshed the
\* attribute cache
C27_IoCountersEveryPass ==
    tick > 0 =>
        /\ "batch_io_counters" \in h_batch.calls
        /\ DOMAIN io_counters = current_pids
        /\ \A pid \in current_pids :
              /\ pid \in DOMAIN prev_io_counters
              /\ prev_io_counters[pid] = [read |-> io_counters[pid][1],
                                          write |-> io_counters[pid][2],
                                          time |-> clock]

\* a pass that left the attribute cache alone and moved the baseline of pid 5
C27_Witness ==
    /\ tick = 3
    /\ AttributeQueries \cap h_batch.calls = {}
    /\ 5 \in DOMAIN h_prev_io
    /\ 5 \in DOMAIN prev_io_counters
    /\ h_prev_io[5].read = 1000
    /\ prev_io_counters[5].read = 1500

\* C28: no sample pass calls both collect_process_data and
\* batch_process_times
C28_TimesOffTheCachePass ==
    ~ ( "collect_process_data" \in h_batch.calls
        /\ "batch_process_times" \in h_batch.calls )

(***************************************************************************)
(* Claims about collapse and expand                                        *)
(***************************************************************************)
\* C29: a collapse leaves the process list as it is and takes entries away
\* from the display list only; and when the pid of the last collapse is
\* expanded again, by + on it or by * when nothing else is collapsed, with
\* no sample pass and no other rebuild of the display list in between, the
\* display list is again what it was before the collapse
C29_ExpandRestoresCollapsed ==
    /\ [][ collapsed_pids' # collapsed_pids =>
             /\ processes' = processes
             /\ PidsOf(filtered_processes') \subseteq PidsOf(filtered_processes) ]_vars
    /\ [][ ( /\ h_collapse.pid # {}
             /\ h_collapse.pid \subseteq collapsed_pids
             /\ collapsed_pids' # collapsed_pids
             /\ \/ collapsed_pids' = collapsed_pids \ h_collapse.pid
                \/ collapsed_pids = h_collapse.pid /\ collapsed_pids' = {} )
           => filtered_processes' = h_collapse.before ]_vars

(***************************************************************************)
(* SpecFrame: searching a list that is filtered, tagged, followed and      *)
(* collapsed                                                               *)
(***************************************************************************)
\* the character typed into the filter prompt and into the search bar
FrameChars == { "o" }

RefreshFrame ==
    /\ tick < MaxViewPasses
    /\ \E procs \in IntentSnapshots :
          Refresh(procs, Host, 0, 0, NoConnections, GpuIdle, clock)

FrameFilterChar == \E c \in FrameChars : FilterKeyChar(c)

FrameSearchChar == \E c \in FrameChars : SearchKeyChar(c)

NextFrame ==
    \/ RefreshFrame
    \/ KeyDown
    \/ KeyFilter
    \/ FrameFilterChar
    \/ FilterKeyEnter
    \/ KeyTag
    \/ KeyFollow
    \/ KeyTree
    \/ KeyCollapse
    \/ KeySearch
    \/ FrameSearchChar
    \/ SearchKeyBackspace
    \/ SearchKeyEnter
    \/ SearchKeyShiftF3

SpecFrame == InitView /\ [][NextFrame]_vars

(***************************************************************************)
(* Claims about what a search leaves alone                                 *)
(***************************************************************************)
\* a step of search_first (a character or Backspace in the search bar),
\* search_next (Enter, F3) or search_prev (Shift+F3)
SearchStep ==
    \/ FrameSearchChar
    \/ SearchKeyBackspace
    \/ SearchKeyEnter
    \/ SearchKeyShiftF3

\* what the claim says a search keeps, and the rest of what is shown
searchKept ==
    << processes, filtered_processes, filter_query, user_filter, tagged_pids,
       follow_pid, collapsed_pids, tree_view, sortVars, paused, tick, visible_rows >>

\* C30: a search changes nothing but selected_index, scroll_offset and
\* search_not_found (and, in the key handler, the query typed so far): the
\* process list, the filtered list with its order, the filter string, the
\* tag set, the follow target and the collapsed set are as before, whatever
\* the query; and when nothing matches, the cursor stays too
C30_SearchMovesOnlyTheCursor ==
    /\ [][ SearchStep => UNCHANGED searchKept ]_vars
    /\ [][ ( SearchStep /\ search_not_found' ) =>
             UNCHANGED << selected_index, scroll_offset >> ]_vars

\* search_next has just moved the cursor over a list that is filtered,
\* collapsed, tagged and followed
C30_Witness ==
    /\ mode = "Search"
    /\ filter_query # << >>
    /\ tagged_pids # {}
    /\ follow_pid # {}
    /\ collapsed_pids # {}
    /\ Len(filtered_processes) < Len(processes)
    /\ h_search.query # << >>
    /\ ~ h_search.not_found
    /\ search_visited # << >>
    /\ selected_index = search_visited[Len(search_visited)]
    /\ selected_index # h_search.from

(***************************************************************************)
(* Claims about where a search lands                                       *)
(***************************************************************************)
\* the rows of `list` that match the lower-cased query, counted from 0
MatchingRows(list, query) ==
    { i \in 0..(Len(list) - 1) : SearchMatches(list[i + 1], query) }

\* the matching row nearest after `sel` in cyclic order, `sel` itself last
NearestAfter(list, query, sel) ==
    LET n == Len(list)
        Dist(i) == ((i + n - (sel % n) - 1) % n) + 1
    IN CHOOSE i \in MatchingRows(list, query) :
          \A j \in MatchingRows(list, query) : Dist(i) <= Dist(j)

\* the matching row nearest before `sel` in cyclic order, `sel` itself last
NearestBefore(list, query, sel) ==
    LET n == Len(list)
        Dist(i) == (((sel % n) + n - i - 1) % n) + 1
    IN CHOOSE i \in MatchingRows(list, query) :
          \A j \in MatchingRows(list, query) : Dist(i) <= Dist(j)

\* where a search may start: a query typed, a list to search, the cursor on
\* one of its rows
Searchable ==
    /\ search_query # << >>
    /\ filtered_processes # << >>
    /\ selected_index < Len(filtered_processes)

\* C31: with a query and a list, search_next (Enter, F3) puts the cursor on
\* the nearest matching row after it in cyclic order, the row it is on
\* coming last, and clears search_not_found; when no row matches it sets
\* search_not_found and leaves the cursor. search_prev (Shift+F3) does the
\* same backwards. And a search_prev from the row a search_next has found
\* goes back to the row that search_next started from, if that row matches.
C31_SearchLandsOnNearest ==
    /\ [][ ( Searchable /\ SearchKeyEnter ) =>
             LET q == ToLower(search_query)
             IN IF MatchingRows(filtered_processes, q) = {}
                THEN search_not_found' /\ selected_index' = selected_index
                ELSE /\ ~ search_not_found'
                     /\ selected_index' = NearestAfter(filtered_processes, q,
                                                       selected_index) ]_vars
    /\ [][ ( Searchable /\ SearchKeyShiftF3 ) =>
             LET q == ToLower(search_query)
             IN IF MatchingRows(filtered_processes, q) = {}
                THEN search_not_found' /\ selected_index' = selected_index
                ELSE /\ ~ search_not_found'
                     /\ selected_index' = NearestBefore(filtered_processes, q,
                                                        selected_index) ]_vars
    /\ [][ ( /\ Searchable
             /\ SearchKeyShiftF3
             /\ search_visited # << >>
             /\ ~ h_search.not_found
             /\ selected_index = search_visited[Len(search_visited)]
             /\ h_search.list = filtered_processes
             /\ h_search.query = ToLower(search_query)
             /\ h_search.from \in MatchingRows(filtered_processes, h_search.query) )
           => selected_index' = h_search.from ]_vars

\* search_next went from a matching row to another, over a row that does
\* not match, and search_prev came back
C31_Witness ==
    /\ h_search_prev = "returned"
    /\ ~ search_not_found
    /\ Len(search_visited) >= 2
    /\ selected_index = h_search.from
    /\ h_search.list = filtered_processes

(***************************************************************************)
(* Claims about which processes the filter keeps                           *)
(***************************************************************************)
\* the pieces of s between its '|' separators, the empty ones included
BarTerms(s) ==
    { SubSeq(s, ab[1], ab[2]) :
        ab \in { cd \in (1..(Len(s) + 1)) \X (0..Len(s)) :
                    /\ cd[1] <= cd[2] + 1
                    /\ cd[1] = 1 \/ s[cd[1] - 1] = "|"
                    /\ cd[2] = Len(s) \/ s[cd[2] + 1] = "|"
                    /\ \A k \in cd[1]..cd[2] : s[k] # "|" } }

\* t without the white space around it
Trimmed(t) ==
    { SubSeq(t, ab[1], ab[2]) :
        ab \in { cd \in (1..(Len(t) + 1)) \X (0..Len(t)) :
                    /\ cd[1] <= cd[2] + 1
                    /\ \A k \in 1..(cd[1] - 1) : t[k] = " "
                    /\ \A k \in (cd[2] + 1)..Len(t) : t[k] = " "
                    /\ cd[1] <= cd[2] => t[cd[1]] # " " /\ t[cd[2]] # " " } }

\* a and b are the same string but for the case of their letters
SameButCase(a, b) ==
    /\ Len(a) = Len(b)
    /\ \A k \in DOMAIN a : LowerChar(a[k]) = LowerChar(b[k])

\* n is a substring of h but for the case of the letters
InButCase(n, h) ==
    \E i \in 0..(Len(h) - Len(n)) : SameButCase(n, SubSeq(h, i + 1, i + Len(n)))

\* the non-empty trimmed terms of the filter string
FilterTerms(query) == (UNION { Trimmed(t) : t \in BarTerms(query) }) \ { << >> }

\* keys typed into the filter prompt: a letter, the separator, white space
TermChars == { "O", "|", " " }

KeyTermChar == \E c \in TermChars : FilterKeyChar(c)

NextTerms ==
    \/ RefreshFilter
    \/ apply_filter
    \/ KeyFilter
    \/ KeyTermChar
    \/ FilterKeyEnter
    \/ KeyUser
    \/ UserKeyDown
    \/ UserKeyEnter
    \/ KeyHideKernel

SpecTerms == InitView /\ [][NextTerms]_vars

\* the three conditions under which a process stays in the view
StaysInView(p) ==
    /\ user_filter = {} \/ \E u \in user_filter : SameButCase(p.user, u)
    /\ \/ ~ hide_kernel_threads
       \/ ~ ( InButCase(StrSystem, p.user) \/ InButCase(StrNtAuthority, p.user) )
    /\ \/ filter_query = << >>
       \/ \E t \in FilterTerms(filter_query) : InButCase(t, p.name) \/ InButCase(t, p.command)

\* C32: apply_filter keeps a process if and only if no user filter is set or
\* its user is the filter's but for case, hide-kernel is off or its user has
\* no system-account marker, and the filter string is empty or one of its
\* trimmed non-empty '|'-separated terms is in the name or the command but
\* for case; a non-empty filter string with only empty terms keeps nothing.
C32_KeepsExactlyTheMatching ==
    last_call = "apply_filter" =>
        /\ \A i \in DOMAIN processes :
              ( \E j \in DOMAIN filtered_processes :
                   filtered_processes[j] = processes[i] )
                 <=> StaysInView(processes[i])
        /\ ( filter_query # << >> /\ FilterTerms(filter_query) = {} )
              => filtered_processes = << >>

\* a filter string with a separator and white space around a term, that
\* kept some processes and dropped others
C32_Witness ==
    /\ last_call = "apply_filter"
    /\ \E k \in DOMAIN filter_query : filter_query[k] = "|"
    /\ \E k \in DOMAIN filter_query : filter_query[k] = " "
    /\ filtered_processes # << >>
    /\ Len(filtered_processes) < Len(processes)

(***************************************************************************)
(* Claims about the aggregation per GPU process                            *)
(***************************************************************************)
\* the engine label in the instance name of an engine item
EngineLabel(item) == (CHOOSE pe \in parse_engine_instance(item.name) : TRUE)[2]

\* the positions of the valid engine items of `pid` that no other exceeds
Busiest(eng, pid) ==
    { i \in ItemsOf(eng, pid, TRUE) :
        \A j \in ItemsOf(eng, pid, TRUE) : FracCmp(eng[j].value, eng[i].value) <= 0 }

\* the last call aggregated what the counters handed over
Aggregated == initialized /\ gpu_status = "ok" /\ h_gpu.sampled

\* the memory of g is the sum over its instances, and no pid comes twice
MemorySummedOncePerPid(g) ==
    LET ded == ItemsRead(dedicated_counter, h_gpu.ans.ded)
        shr == ItemsRead(shared_counter, h_gpu.ans.shr)
    IN /\ g.dedicated_mem = SumBytes(ded, ItemsOf(ded, g.pid, FALSE))
       /\ g.shared_mem = SumBytes(shr, ItemsOf(shr, g.pid, FALSE))
       /\ \A o \in gpu_out : o.pid = g.pid => o = g

has_bandwidth_data == admin_ok # "SomeFalse"

\* C34: admin_ok is a monotone tri-state: None until the first call of
\* SetPerTcpConnectionEStats, Some(true) or Some(false) as that call went,
\* and the same ever after: a later failure to enable a connection does not
\* downgrade Some(true), and Some(false) never becomes Some(true).
C34_PrivilegeSetOnce ==
    /\ []( admin_ok = "None" <=> h_first_enable = "none" )
    /\ []( admin_ok = "SomeTrue" <=> h_first_enable = "ok" )
    /\ []( has_bandwidth_data <=> h_first_enable # "failed" )
    /\ [][ admin_ok # "None" => admin_ok' = admin_ok ]_vars

\* an enabled tracker whose last poll read a connection that it could not
\* enable
C34_Witness ==
    /\ admin_ok = "SomeTrue"
    /\ \E k \in DOMAIN estats_read.read : k \notin enabled_set

(***************************************************************************)
(* run_app (src/main.rs): the main loop                                    *)
(***************************************************************************)
MaxQuitPasses == 2

\* the terminal heights the loop is run with, in compact mode
TermHeights == { 6, 30 }

\* the key presses of the quit specification, by the mode that takes them
QuitKeys ==
    [ Normal |-> { "F10", "q", "Ctrl-c", "F1", "F3", "F4" },
      Search |-> { "F10", "Esc" },
      Filter |-> { "F10", "Enter" },
      Help |-> { "F10", "q", "Esc" } ]

\* the mouse events: a left click on the Quit or the Help entry of the
\* footer, and the press of another button
QuitClicks == { "FooterQuit", "FooterHelp", "Right" }

\* handle_input for a key of QuitKeys
HandleInput(key) ==
    CASE mode = "Normal" /\ key \in { "F10", "q", "Ctrl-c" } ->
            /\ should_quit' = TRUE
            /\ UNCHANGED << mode, searchVars >>
      [] mode = "Normal" /\ key = "F1" ->
            /\ mode' = "Help"
            /\ UNCHANGED << should_quit, searchVars >>
      [] mode = "Normal" /\ key = "F3" ->
            /\ mode' = "Search"
            /\ search_query' = << >>
            /\ UNCHANGED << should_quit, search_not_found >>
      [] mode = "Normal" /\ key = "F4" ->
            /\ mode' = "Filter"
            /\ UNCHANGED << should_quit, searchVars >>
      [] mode = "Search" /\ key = "Esc" ->
            /\ mode' = "Normal"
            /\ search_query' = << >>
            /\ search_not_found' = FALSE
            /\ UNCHANGED should_quit
      [] mode \in { "Search", "Filter" } /\ key = "F10" ->
            /\ should_quit' = TRUE
            /\ UNCHANGED << mode, searchVars >>
      [] mode = "Filter" /\ key = "Enter" ->
            /\ mode' = "Normal"
            /\ UNCHANGED << should_quit, searchVars >>
      [] mode = "Help" /\ key \in { "q", "Esc" } ->
            /\ mode' = "Normal"
            /\ UNCHANGED << should_quit, searchVars >>
      [] OTHER -> UNCHANGED << mode, should_quit, searchVars >>

\* handle_mouse for an event of QuitClicks
HandleMouse(click) ==
    CASE mode = "Normal" /\ click = "FooterQuit" ->
            /\ should_quit' = TRUE
            /\ UNCHANGED << mode, searchVars >>
      [] mode = "Normal" /\ click = "FooterHelp" ->
            /\ mode' = "Help"
            /\ UNCHANGED << should_quit, searchVars >>
      [] OTHER -> UNCHANGED << mode, should_quit, searchVars >>

\* what the handlers of the quit specification and the draw leave alone
quitFrame ==
    << driven, clock, collectorVars, trackerVars, passVars, pollVars, gpuVars, gpuCallVars,
       refresh_skipped, configVars, paused, sampledVars, follow_pid, show_threads,
       tagged_pids, tabVars, searchCallVars, tagCallVars, processes, filtered_processes,
       selected_index, scroll_offset, sortVars, filterVars, treeVars, user_menu_index,
       callVars, h_killed, visible_columns, color_scheme_id, display_on, setup_toggles >>

\* PstopConfig::from_app(&app).save() and return Ok(())
SaveAndReturn ==
    /\ config_saves' = config_saves + 1
    /\ run_at' = "returned"

\* the files of the quit specification: none, and one line for enable_mouse
MouseFiles ==
    { << >>, << [key |-> "enable_mouse", value |-> << "0" >>] >>,
      << [key |-> "enable_mouse", value |-> << "1" >>] >> }

\* PstopConfig::load and apply_to, of a file that sets enable_mouse
RunLoad ==
    /\ run_at = "load"
    /\ \E file \in MouseFiles : apply_to(load(file))
    /\ run_at' = "init"
    /\ UNCHANGED << settingsFrame, mode, setup_toggles, menuPos, config_loaded >>

\* whether the loop refreshes: the passes before MaxQuitPasses
RunRefresh ==
    /\ tick < MaxQuitPasses
    /\ \E procs \in IntentSnapshots :
          CollectorRefresh(procs, Host, 0, 0, NoConnections, GpuIdle, clock)
    /\ h_after_quit' = [h_after_quit EXCEPT !.pass = @ \/ should_quit]
    /\ UNCHANGED << h_killed, setup_toggles >>

\* the data collection before the loop
RunInit ==
    /\ run_at = "init"
    /\ RunRefresh
    /\ run_at' = "draw"
    /\ UNCHANGED config_saves

\* the top of the loop: visible_rows from the terminal size, the draw, and
\* the quit check before waiting for events
RunDraw ==
    /\ run_at = "draw"
    /\ \E available \in TermHeights :
          visible_rows' = VisibleRows(available, CompactHeaderHeight,
                                      BarHeight(mode, filter_query))
    /\ IF should_quit THEN SaveAndReturn
       ELSE run_at' = "poll" /\ UNCHANGED config_saves
    /\ UNCHANGED << quitFrame, enable_mouse, mode, should_quit, searchVars, h_after_quit >>

\* event::read gives a key press: handle_input
RunKey ==
    /\ run_at = "poll"
    /\ \E key \in QuitKeys[mode] : HandleInput(key)
    /\ h_after_quit' = [h_after_quit EXCEPT !.dispatch = @ \/ should_quit]
    /\ run_at' = "handled"
    /\ UNCHANGED << quitFrame, enable_mouse, visible_rows, config_saves >>

\* event::read gives a mouse event: handle_mouse when the mouse is enabled
RunMouse ==
    /\ run_at = "poll"
    /\ IF enable_mouse
       THEN /\ \E click \in QuitClicks : HandleMouse(click)
            /\ h_after_quit' = [h_after_quit EXCEPT !.dispatch = @ \/ should_quit]
            /\ run_at' = "handled"
       ELSE /\ run_at' = "tick"
            /\ UNCHANGED << mode, should_quit, searchVars, h_after_quit >>
    /\ UNCHANGED << quitFrame, enable_mouse, visible_rows, config_saves >>

\* the check that follows handle_input and handle_mouse without a check
RunHandledNoCheck ==
    /\ run_at = "handled"
    /\ run_at' = "tick"
    /\ UNCHANGED << quitFrame, enable_mouse, visible_rows, mode, should_quit, searchVars,
                    config_saves, h_after_quit >>

\* the check that follows handle_input and handle_mouse
RunHandled ==
    /\ run_at = "handled"
    /\ IF should_quit THEN SaveAndReturn
       ELSE run_at' = "tick" /\ UNCHANGED config_saves
    /\ UNCHANGED << quitFrame, enable_mouse, visible_rows, mode, should_quit, searchVars,
                    h_after_quit >>

\* event::poll times out, or the event is a resize or a key release
RunIdle ==
    /\ run_at = "poll"
    /\ run_at' = "tick"
    /\ UNCHANGED << quitFrame, enable_mouse, visible_rows, mode, should_quit, searchVars,
                    config_saves, h_after_quit >>

\* the end of the loop body: the sample pass when the interval has elapsed
RunTick ==
    /\ run_at = "tick"
    /\ \/ RunRefresh
       \/ UNCHANGED << quitFrame, enable_mouse, visible_rows, mode, should_quit,
                       searchVars, h_after_quit >>
    /\ run_at' = "draw"
    /\ UNCHANGED config_saves

\* terminal.size, terminal.draw or event::poll fails: run_app returns the error
RunError ==
    /\ run_at \in { "draw", "poll" }
    /\ run_at' = "failed"
    /\ UNCHANGED << quitFrame, enable_mouse, visible_rows, mode, should_quit, searchVars,
                    config_saves, h_after_quit >>

NextQuit ==
    \/ RunLoad
    \/ RunInit
    \/ RunDraw
    \/ RunKey
    \/ RunMouse
    \/ RunHandled
    \/ RunIdle
    \/ RunTick
    \/ RunError

SpecQuit == InitView /\ [][NextQuit]_vars

\* C35: once should_quit is set, by a key or by the mouse, the main loop
\* stops without another sample pass and without dispatching another input
\* event: the only step it takes is the call of PstopConfig::save followed by
\* the return, and it has returned after a quit only with that one save made.
C35_QuitStopsAndSaves ==
    /\ []( ~ h_after_quit.pass /\ ~ h_after_quit.dispatch )
    /\ [][ should_quit =>
             /\ run_at' = "returned"
             /\ config_saves' = config_saves + 1
             /\ UNCHANGED << tick, refresh_skipped, processes, mode, should_quit >> ]_vars
    /\ []( run_at = "returned" => should_quit /\ config_saves = 1 )

\* the loop has returned after F10 in the search bar, with two sample passes
\* taken before it
C35_Witness ==
    /\ run_at = "returned"
    /\ should_quit
    /\ mode = "Search"
    /\ config_saves = 1
    /\ tick = MaxQuitPasses

(***************************************************************************)
(* Kill mode (src/input.rs) and the tag set across sample passes           *)
(***************************************************************************)
\* what the keys of kill mode leave alone
killFrame ==
    << driven, clock, collectorVars, trackerVars, passVars, pollVars, gpuVars, gpuCallVars,
       refresh_skipped, configVars, paused, sampledVars, follow_pid, show_threads,
       searchVars, tabVars, searchCallVars, tagCallVars, processes, filtered_processes,
       selectionVars, sortVars, filterVars, treeVars, user_menu_index, callVars,
       otherApp, run_at, config_saves, h_after_quit, setup_toggles >>

\* handle_normal_mode, F9 and k
KeyKill ==
    /\ mode = "Normal"
    /\ mode' = "Kill"
    /\ UNCHANGED << killFrame, tagged_pids, h_killed >>

\* handle_kill_mode, Esc
KillKeyEsc ==
    /\ mode = "Kill"
    /\ mode' = "Normal"
    /\ UNCHANGED << killFrame, tagged_pids, h_killed >>

\* handle_kill_mode, Enter: the signal goes to the tagged pids, or to the
\* selected process when nothing is tagged
KillKeyEnter ==
    /\ mode = "Kill"
    /\ LET pids == IF tagged_pids # {} THEN tagged_pids
                   ELSE SelectedPid(filtered_processes, selected_index)
       IN h_killed' = [pids |-> pids, listed |-> PidsOf(processes)]
    /\ tagged_pids' = {}
    /\ mode' = "Normal"
    /\ UNCHANGED killFrame

NextLive ==
    \/ RefreshScroll
    \/ KeyDown
    \/ KeyTag
    \/ KeyKill
    \/ KillKeyEsc
    \/ KillKeyEnter

SpecLive == InitView /\ [][NextLive]_vars

\* C36: after every non-paused sample pass each pid in tagged_pids is the
\* pid of a process in the current process list, and a kill request over
\* the tag set never names a pid that is not in the process list.
C36_TagsNameLiveProcesses ==
    /\ [][ tick' # tick => tagged_pids' \subseteq PidsOf(processes') ]_vars
    /\ []( h_killed.pids \subseteq h_killed.listed )

(***************************************************************************)
(* SpecConfig: the settings, loaded, changed in the setup menu and saved   *)
(***************************************************************************)
Line(k, v) == [key |-> k, value |-> v]

\* configuration files: no line; one column; one index past the last
\* column; Command among padded, out-of-range and non-numeric indices; an
\* unknown key among settings that differ from the defaults; values out of
\* range and an empty column list; the file a save of the defaults writes
SettingsFiles ==
    { << >>,
      << Line("visible_columns", << "0" >>) >>,
      << Line("visible_columns", << "1", "7" >>) >>,
      << Line("visible_columns", << " ", "1", "6", ",", " ", "0", ",", "9", "9", ",", "x" >>) >>,
      << Line("colour", << "1" >>), Line("tree_view", << "1" >>),
         Line("sort_field", << "1", "6" >>), Line("sort_ascending", << "1" >>),
         Line("color_scheme", << "3" >>), Line("enable_mouse", << "0" >>),
         Line("highlight_threads", << "y", "e", "s" >>) >>,
      << Line("color_scheme", << "9" >>), Line("sort_field", << "1", "7" >>),
         Line("update_interval_ms", << "5", "0" >>), Line("visible_columns", << >>) >>,
      save(DefaultConfig) }

ConfigApplied == \E file \in SettingsFiles : ConfigApply(file)

\* run_app loads the configuration before its loop takes the first key
NextConfig ==
    \/ ConfigApplied
    \/ config_loaded /\ KeySetup
    \/ config_loaded /\ SetupKeyEsc
    \/ config_loaded /\ SetupKeyRight
    \/ config_loaded /\ SetupKeyDown
    \/ config_loaded /\ SetupKeySpace
    \/ config_loaded /\ SetupKeyToggleAll

SpecConfig == InitView /\ [][NextConfig]_vars

(***************************************************************************)
(* Claims about the persisted settings                                     *)
(***************************************************************************)
\* C37: the Command column is visible in every state: after the load and
\* apply of a configuration file, whatever indices its visible_columns line
\* has, and after every column toggle and toggle-all of the setup menu, the
\* set of visible columns contains Command
C37_CommandAlwaysVisible == "Command" \in visible_columns

\* the settings of two configurations are the same, the visible columns
\* compared as sets
SameSettings(a, b) ==
    /\ a.flags = b.flags
    /\ a.update_interval_ms = b.update_interval_ms
    /\ a.color_scheme_id = b.color_scheme_id
    /\ a.sort_field = b.sort_field
    /\ a.sort_ascending = b.sort_ascending
    /\ { a.visible_columns[i] : i \in DOMAIN a.visible_columns }
          = { b.visible_columns[i] : i \in DOMAIN b.visible_columns }

\* the keys PstopConfig::load knows
KnownKeys ==
    BoolKeySet \cup { "update_interval_ms", "color_scheme", "sort_field", "sort_ascending",
                      "visible_columns" }

\* the setting a key stands for
Setting(cfg, k) ==
    CASE k \in BoolKeySet -> cfg.flags[k]
      [] k = "update_interval_ms" -> cfg.update_interval_ms
      [] k = "color_scheme" -> cfg.color_scheme_id
      [] k = "sort_field" -> cfg.sort_field
      [] k = "sort_ascending" -> cfg.sort_ascending
      [] k = "visible_columns" -> cfg.visible_columns

\* a step that calls PstopConfig::from_app(app).save(): Esc in the setup menu
SaveStep == mode = "Setup" /\ mode' = "Normal"

\* C38: the configuration round-trips: loading the lines a save wrote
\* yields the settings the save was called on (every boolean, the colour
\* scheme, the sort field and direction, the interval, the same set of
\* visible columns), in whatever state the save was made; and the load of a
\* file yields the default for every key of which the file has no line,
\* its lines with unknown keys being ignored
C38_RoundTrip ==
    /\ [][ SaveStep => SameSettings(load(save(from_app)), from_app) ]_vars
    /\ [] \A file \in SettingsFiles : \A k \in KnownKeys :
          (\A i \in DOMAIN file : file[i].key # k)
             => Setting(load(file), k) = Setting(DefaultConfig, k)
    /\ [] \A file \in SettingsFiles :
          load(file) = load(SelectSeq(file, LAMBDA l : l.key \in KnownKeys))

====
